---- MODULE Spec2Model ----
(***************************************************************************)
(* Model of the GLSP client's type hint resolution, type hint application  *)
(* and correlated request helpers.                                         *)
(*                                                                         *)
(* Strings are sequences of one-character strings, so that split(':') and  *)
(* join(':') are computed and not assumed.  A JavaScript Map is a function *)
(* from its keys to its values; `undefined` is the value Undefined.        *)
(***************************************************************************)
EXTENDS Integers, Sequences, FiniteSets, TLC

VARIABLES
    shapeHints,   \* TypeHintProvider.shapeHints : Map<string, ShapeTypeHint>
    edgeHints,    \* TypeHintProvider.edgeHints  : Map<string, EdgeTypeHint>
    probe,        \* the call made on the ITypeHintProvider interface
    answer,       \* what that call returned
    elements,     \* context.root.index.all() : the elements of the model tree, by id
    feedback,     \* the feedback actions registered by the TypeHintProvider
    before,       \* the elements as they were when the last application pass began
    passes,       \* application passes run since the registry last changed
    turnedOn,     \* per element, the tokens that some application pass has added
    requests,     \* the dispatcher's pending correlated requests, by call
    futures,      \* the promise returned by each getItems / validate call
    dispatched,   \* the actions dispatched so far, in dispatch order
    calls,        \* per call: its helper, its place in dispatched, its resolutions
    ingested,     \* the last action handled and the registry it was handled on
    commandStack, \* GLSPCommandStack : its emitter's callbacks and the command it runs
    stackLog,     \* what the command stack's callers, listeners and logger have seen
    queue,        \* the actions dispatched and not yet begun, each with its ticket
    dispatcher,   \* the tickets issued, the last one begun, the traversal under way
    notifier      \* the execute calls waiting for the command stack, those begun,
                  \* and those whose model-root-changed event has been delivered

vars == <<shapeHints, edgeHints, probe, answer, elements, feedback, before, passes,
          turnedOn, requests, futures, dispatched, calls, ingested, commandStack,
          stackLog, queue, dispatcher, notifier>>

registryVars == <<shapeHints, edgeHints>>
probeVars == <<probe, answer>>
treeVars == <<elements, feedback, before, passes, turnedOn>>
requestVars == <<requests, futures, dispatched, calls>>
stackVars == <<commandStack, stackLog>>
dispatchVars == <<queue, dispatcher>>

(***************************************************************************)
(* Bounds of the model.                                                    *)
(***************************************************************************)
MaxLen == 3        \* longest type id (in characters) the resolver is probed with
MaxKeys == 2       \* most entries of a probed registry
MaxPasses == 2     \* most application passes run in a row on an unchanged registry
MaxEndpoints == 2  \* most ids in the source or target list of a probed edge hint
MaxCalls == 2      \* most getItems / validate calls made
MaxDispatched == 4 \* most actions dispatched
MaxWarnings == 1   \* most undo() / redo() calls made
MaxExecutes == 3   \* most execute calls made on the notifier
MaxMarkerCalls == 3 \* most getOrCreateSIssueMarker / getSIssueMarker calls made
MaxTickets == 5    \* most actions that join the dispatcher's queue

Colon == ":"
Chars == {"n", Colon}

Undefined == [undefined |-> TRUE]
EmptyMap == <<>>

\* the variables of a part of the client that a specification leaves out
NoTree ==
    /\ elements = EmptyMap
    /\ feedback = {}
    /\ before = EmptyMap
    /\ passes = 0
    /\ turnedOn = EmptyMap

NoRequests ==
    /\ requests = EmptyMap
    /\ futures = EmptyMap
    /\ dispatched = <<>>
    /\ calls = EmptyMap

\* no execute call has been made
NoCalls == [pending |-> <<>>, calls |-> 0, begun |-> <<>>, delivered |-> <<>>]

\* a command stack with no listener, that nothing has called
NoStack ==
    /\ commandStack = [state |-> "Idle", command |-> Undefined, chained |-> FALSE,
                       result |-> Undefined, modelRootListeners |-> <<>>,
                       callbacks |-> <<>>]
    /\ stackLog = [returned |-> Undefined, notified |-> <<>>, warnings |-> <<>>]
    /\ notifier = NoCalls

\* a dispatcher that nothing has been dispatched to
NoDispatch ==
    /\ queue = <<>>
    /\ dispatcher = [tickets |-> 0, begun |-> 0, current |-> Undefined, todo |-> <<>>]

\* no action has been handled yet
NoIngest ==
    [action |-> Undefined, shapeHints |-> EmptyMap, edgeHints |-> EmptyMap,
     again |-> FALSE]

(***************************************************************************)
(* Strings                                                                 *)
(***************************************************************************)
RECURSIVE StringsOfLen(_)
StringsOfLen(n) ==
    IF n = 0 THEN {<<>>}
    ELSE {<<c>> \o s : c \in Chars, s \in StringsOfLen(n - 1)}

Strings == UNION {StringsOfLen(n) : n \in 0..MaxLen}

\* String.prototype.split(':') : never the empty array, "" splits to [""]
RECURSIVE Split(_)
Split(s) ==
    IF s = <<>> THEN << <<>> >>
    ELSE LET rest == Split(Tail(s))
         IN  IF Head(s) = Colon
             THEN << <<>> >> \o rest
             ELSE << <<Head(s)>> \o Head(rest) >> \o Tail(rest)

\* Array.prototype.join(':') : the empty array joins to ""
RECURSIVE Join(_)
Join(segs) ==
    IF Len(segs) = 0 THEN <<>>
    ELSE IF Len(segs) = 1 THEN segs[1]
    ELSE segs[1] \o <<Colon>> \o Join(Tail(segs))

\* Array.prototype.pop : the array without its last entry
Pop(segs) == SubSeq(segs, 1, Len(segs) - 1)

\* Map.prototype.get
MapGet(map, key) == IF key \in DOMAIN map THEN map[key] ELSE Undefined

\* a set() that merges into the entry it finds
MapSet_Merge(map, key, value) ==
    [k \in (DOMAIN map) \cup {key} |->
        IF k # key THEN map[k]
        ELSE IF key \in DOMAIN map
             THEN [f \in (DOMAIN map[key]) \cup (DOMAIN value) |->
                      IF f \in DOMAIN value THEN value[f] ELSE map[key][f]]
             ELSE value]

\* Map.prototype.set
MapSet(map, key, value) ==
    [k \in (DOMAIN map) \cup {key} |-> IF k = key THEN value ELSE map[k]]

(***************************************************************************)
(* utils/smodel-util                                                       *)
(***************************************************************************)
\* the type id of an element (every input of the model is an element)
getElementTypeId(input) == input.type

(***************************************************************************)
(* type-hints.ts : getTypeHint                                             *)
(***************************************************************************)
\* a slip: the loop gives up while one segment is left, "" is never looked up
RECURSIVE SubtypeLoop_KeepsLast(_, _, _)
SubtypeLoop_KeepsLast(subtypes, hint, hints) ==
    IF hint = Undefined /\ Len(subtypes) > 1
    THEN SubtypeLoop_KeepsLast(Pop(subtypes), MapGet(hints, Join(Pop(subtypes))), hints)
    ELSE hint

\* the `while (hint === undefined && subtypes.length > 0)` loop
RECURSIVE SubtypeLoop(_, _, _)
SubtypeLoop(subtypes, hint, hints) ==
    IF hint = Undefined /\ Len(subtypes) > 0
    THEN SubtypeLoop(Pop(subtypes), MapGet(hints, Join(Pop(subtypes))), hints)
    ELSE hint

\* a slip: the exact id is not looked up first, the most general ancestor wins
RECURSIVE GeneralFirst(_, _, _)
GeneralFirst(subtypes, k, hints) ==
    IF k > Len(subtypes) THEN Undefined
    ELSE IF Join(SubSeq(subtypes, 1, k)) \in DOMAIN hints
         THEN hints[Join(SubSeq(subtypes, 1, k))]
         ELSE GeneralFirst(subtypes, k + 1, hints)

getTypeHint_GeneralFirst(input, hints) ==
    GeneralFirst(Split(getElementTypeId(input)), 0, hints)

getTypeHint(input, hints) ==
    LET type == getElementTypeId(input)
        hint == MapGet(hints, type)
    IN  IF hint = Undefined THEN SubtypeLoop(Split(type), hint, hints) ELSE hint

\* the keys the loop passes to hints.get, in the order it does
RECURSIVE SubtypeLookups(_, _, _)
SubtypeLookups(subtypes, hint, hints) ==
    IF hint = Undefined /\ Len(subtypes) > 0
    THEN <<Join(Pop(subtypes))>>
         \o SubtypeLookups(Pop(subtypes), MapGet(hints, Join(Pop(subtypes))), hints)
    ELSE <<>>

\* the keys getTypeHint passes to hints.get, in the order it does
Lookups(input, hints) ==
    LET type == getElementTypeId(input)
        hint == MapGet(hints, type)
    IN  <<type>> \o (IF hint = Undefined
                     THEN SubtypeLookups(Split(type), hint, hints) ELSE <<>>)

getShapeTypeHint(input) == getTypeHint(input, shapeHints)

getEdgeTypeHint(input) == getTypeHint(input, edgeHints)

(***************************************************************************)
(* utils/smodel-util : hasCompatibleType.  type is compatible with the     *)
(* input if it is the input's type id or one of its ancestors, found by    *)
(* the stripping rule of getTypeHint.                                      *)
(***************************************************************************)
RECURSIVE AncestorMatches(_, _)
AncestorMatches(subtypes, type) ==
    IF Len(subtypes) = 0 THEN FALSE
    ELSE Join(Pop(subtypes)) = type \/ AncestorMatches(Pop(subtypes), type)

hasCompatibleType(input, type) ==
    LET inputType == getElementTypeId(input)
    IN  inputType = type \/ AncestorMatches(Split(inputType), type)

(***************************************************************************)
(* type-hints.ts : TypeHintProvider.getValidEdgeElementTypes.  The result  *)
(* array is read with includes() only: it is the set of its entries, as    *)
(* are the id arrays of the hints.                                         *)
(***************************************************************************)
\* a slip: both roles read the source ids
getValidEdgeElementTypes_SourceOnly(input, role) ==
    LET elementTypeId == getElementTypeId(input)
    IN  {edgeHints[k].elementTypeId : k \in
            {j \in DOMAIN edgeHints :
                \E sourceElementTypeId \in edgeHints[j].sourceElementTypeIds :
                    hasCompatibleType([type |-> elementTypeId], sourceElementTypeId)}}

getValidEdgeElementTypes(input, role) ==
    LET elementTypeId == getElementTypeId(input)
    IN  IF role = "source"
        THEN {edgeHints[k].elementTypeId : k \in
                {j \in DOMAIN edgeHints :
                    \E sourceElementTypeId \in edgeHints[j].sourceElementTypeIds :
                        hasCompatibleType([type |-> elementTypeId], sourceElementTypeId)}}
        ELSE {edgeHints[k].elementTypeId : k \in
                {j \in DOMAIN edgeHints :
                    \E targetElementTypeId \in edgeHints[j].targetElementTypeIds :
                        hasCompatibleType([type |-> elementTypeId], targetElementTypeId)}}

(***************************************************************************)
(* Feature tokens                                                          *)
(***************************************************************************)
deletableFeature == "deletable"
moveFeature == "movable"
resizeFeature == "resizable"
reparentFeature == "reparentable"
containerFeature == "containable"
connectableFeature == "connectable"
editFeature == "editable"
reconnectFeature == "reconnectable"

Features == {deletableFeature, moveFeature, resizeFeature, reparentFeature,
             containerFeature, connectableFeature, editFeature, reconnectFeature}

(***************************************************************************)
(* type-hints.ts : the helpers of ApplyTypeHintsCommand                    *)
(***************************************************************************)
\* a slip: the feature is toggled instead of set
addOrRemove_Toggle(features, feature, add) ==
    IF feature \in features THEN features \ {feature} ELSE features \cup {feature}

\* a slip: the feature is added, never removed
addOrRemove_AddOnly(features, feature, add) ==
    IF add THEN features \cup {feature} ELSE features

addOrRemove(features, feature, add) ==
    IF add /\ feature \notin features THEN features \cup {feature}
    ELSE IF ~add /\ feature \in features THEN features \ {feature}
    ELSE features

\* featureSet !== undefined && featureSet instanceof Set : the element says
\* whether its feature set is a Set
isModifiableFeatureSet(element) == element.modifiable

\* the closure over the hint
createContainable(hint) == [hint |-> hint]

\* a slip: the arrays are taken in the other order
createConnectable_Swapped(validSourceEdges, validTargetEdges) ==
    [validSourceEdges |-> validTargetEdges, validTargetEdges |-> validSourceEdges]

\* the closure over the two arrays
createConnectable(validSourceEdges, validTargetEdges) ==
    [validSourceEdges |-> validSourceEdges, validTargetEdges |-> validTargetEdges]

\* what a predicate of the element's own class answers when no closure has
\* been assigned over it
OwnPredicate == TRUE

\* a slip: a hint without containableElementTypeIds lets anything in
isContainableElement_AbsentAllows(element, candidate) ==
    IF element.isContainableElement = Undefined THEN OwnPredicate
    ELSE LET hint == element.isContainableElement.hint
         IN  IF "containableElementTypeIds" \in DOMAIN hint
             THEN getElementTypeId(candidate) \in hint.containableElementTypeIds
             ELSE TRUE

\* element.isContainableElement(candidate)
isContainableElement(element, candidate) ==
    IF element.isContainableElement = Undefined THEN OwnPredicate
    ELSE LET hint == element.isContainableElement.hint
         IN  IF "containableElementTypeIds" \in DOMAIN hint
             THEN getElementTypeId(candidate) \in hint.containableElementTypeIds
             ELSE FALSE

\* element.canConnect(routable, role)
canConnect(element, routable, role) ==
    IF element.canConnect = Undefined THEN OwnPredicate
    ELSE IF role = "source"
         THEN routable.type \in element.canConnect.validSourceEdges
         ELSE routable.type \in element.canConnect.validTargetEdges

(***************************************************************************)
(* type-hints.ts : ApplyTypeHintsCommand                                   *)
(***************************************************************************)
\* a slip: editable is driven by repositionable, reconnectable by routable
applyEdgeTypeHint_Swapped(element) ==
    LET hint == getEdgeTypeHint(element)
    IN  IF hint # Undefined /\ isModifiableFeatureSet(element)
        THEN [element EXCEPT !.features =
                addOrRemove(addOrRemove(addOrRemove(@,
                    deletableFeature, hint.deletable),
                    editFeature, hint.repositionable),
                    reconnectFeature, hint.routable)]
        ELSE element

applyEdgeTypeHint(element) ==
    LET hint == getEdgeTypeHint(element)
    IN  IF hint # Undefined /\ isModifiableFeatureSet(element)
        THEN [element EXCEPT !.features =
                addOrRemove(addOrRemove(addOrRemove(@,
                    deletableFeature, hint.deletable),
                    editFeature, hint.routable),
                    reconnectFeature, hint.repositionable)]
        ELSE element

\* a slip: movable is driven by resizable and resizable by repositionable
ShapeHintApplied_Swapped(element, hint) ==
    [element EXCEPT
        !.features =
            addOrRemove(addOrRemove(addOrRemove(addOrRemove(addOrRemove(addOrRemove(@,
                deletableFeature, hint.deletable),
                moveFeature, hint.resizable),
                resizeFeature, hint.repositionable),
                reparentFeature, hint.reparentable),
                containerFeature, TRUE),
                connectableFeature, TRUE),
        !.isContainableElement = createContainable(hint),
        !.canConnect = createConnectable(getValidEdgeElementTypes(element, "source"),
                                         getValidEdgeElementTypes(element, "target"))]

\* the body of the `if` of applyShapeTypeHint
ShapeHintApplied(element, hint) ==
    [element EXCEPT
        !.features =
            addOrRemove(addOrRemove(addOrRemove(addOrRemove(addOrRemove(addOrRemove(@,
                deletableFeature, hint.deletable),
                moveFeature, hint.repositionable),
                resizeFeature, hint.resizable),
                reparentFeature, hint.reparentable),
                containerFeature, TRUE),
                connectableFeature, TRUE),
        !.isContainableElement = createContainable(hint),
        !.canConnect = createConnectable(getValidEdgeElementTypes(element, "source"),
                                         getValidEdgeElementTypes(element, "target"))]

\* a slip: an element without a hint loses the tokens a hint would govern
applyShapeTypeHint_Revoking(element) ==
    LET hint == getShapeTypeHint(element)
    IN  IF hint # Undefined /\ isModifiableFeatureSet(element)
        THEN ShapeHintApplied(element, hint)
        ELSE [element EXCEPT !.features =
                @ \ {deletableFeature, moveFeature, resizeFeature, reparentFeature}]

applyShapeTypeHint(element) ==
    LET hint == getShapeTypeHint(element)
    IN  IF hint # Undefined /\ isModifiableFeatureSet(element)
        THEN ShapeHintApplied(element, hint)
        ELSE element

\* the body of the forEach of execute: instanceof SShapeElement or SModelRoot,
\* else instanceof SEdge, else nothing
applyTypeHint(element) ==
    IF element.class \in {"SShapeElement", "SModelRoot"} THEN applyShapeTypeHint(element)
    ELSE IF element.class = "SEdge" THEN applyEdgeTypeHint(element)
    ELSE element

\* the tokens a pass asks addOrRemove to add to the element, and to remove
\* from it (none when the pass leaves the element alone)
TokensOn(element) ==
    LET shape == getShapeTypeHint(element)
        edge == getEdgeTypeHint(element)
    IN  IF ~isModifiableFeatureSet(element) THEN {}
        ELSE IF element.class \in {"SShapeElement", "SModelRoot"} /\ shape # Undefined
        THEN {containerFeature, connectableFeature}
             \cup (IF shape.deletable THEN {deletableFeature} ELSE {})
             \cup (IF shape.repositionable THEN {moveFeature} ELSE {})
             \cup (IF shape.resizable THEN {resizeFeature} ELSE {})
             \cup (IF shape.reparentable THEN {reparentFeature} ELSE {})
        ELSE IF element.class = "SEdge" /\ edge # Undefined
        THEN (IF edge.deletable THEN {deletableFeature} ELSE {})
             \cup (IF edge.routable THEN {editFeature} ELSE {})
             \cup (IF edge.repositionable THEN {reconnectFeature} ELSE {})
        ELSE {}

TokensOff(element) ==
    LET shape == getShapeTypeHint(element)
        edge == getEdgeTypeHint(element)
    IN  IF ~isModifiableFeatureSet(element) THEN {}
        ELSE IF element.class \in {"SShapeElement", "SModelRoot"} /\ shape # Undefined
        THEN {deletableFeature, moveFeature, resizeFeature, reparentFeature}
             \ TokensOn(element)
        ELSE IF element.class = "SEdge" /\ edge # Undefined
        THEN {deletableFeature, editFeature, reconnectFeature} \ TokensOn(element)
        ELSE {}

\* ApplyTypeHintsAction.create
ApplyTypeHintsAction_create == [kind |-> "applyTypeHints"]

\* ApplyTypeHintsCommand.execute, run for the registered applyTypeHints feedback
execute ==
    /\ ApplyTypeHintsAction_create \in feedback
    /\ passes < MaxPasses
    /\ elements' = [id \in DOMAIN elements |-> applyTypeHint(elements[id])]
    /\ before' = elements
    /\ passes' = passes + 1
    /\ turnedOn' = [id \in DOMAIN elements |-> turnedOn[id] \cup TokensOn(elements[id])]
    /\ UNCHANGED <<registryVars, probeVars, feedback, requestVars, ingested, stackVars, dispatchVars, notifier>>

(***************************************************************************)
(* type-hints.ts : TypeHintProvider.handle                                 *)
(***************************************************************************)
\* SetTypeHintsAction.is : the kind and the two arrays
SetTypeHintsAction_is(action) ==
    /\ action.kind = "setTypeHints"
    /\ "shapeHints" \in DOMAIN action
    /\ "edgeHints" \in DOMAIN action

\* hints.forEach(hint => map.set(hint.elementTypeId, hint))
RECURSIVE SetEach(_, _)
SetEach(map, hints) ==
    IF hints = <<>> THEN map
    ELSE SetEach(MapSet(map, Head(hints).elementTypeId, Head(hints)), Tail(hints))

\* a handler that forgets to register its feedback
\* the shape hints are stored before the rest of the action has been looked at
handle_KindOnly(action) ==
    IF action.kind = "setTypeHints" /\ "shapeHints" \in DOMAIN action
    THEN /\ shapeHints' = SetEach(shapeHints, action.shapeHints)
         /\ edgeHints' = IF "edgeHints" \in DOMAIN action
                          THEN SetEach(edgeHints, action.edgeHints)
                          ELSE edgeHints
         /\ feedback' = {ApplyTypeHintsAction_create}
         /\ passes' = 0
         /\ before' = elements
         /\ UNCHANGED <<probeVars, elements, turnedOn, requestVars, stackVars>>
    ELSE UNCHANGED <<registryVars, probeVars, treeVars, requestVars, stackVars>>

handle_Unregistered(action) ==
    IF SetTypeHintsAction_is(action)
    THEN /\ shapeHints' = SetEach(shapeHints, action.shapeHints)
         /\ edgeHints' = SetEach(edgeHints, action.edgeHints)
         /\ passes' = 0
         /\ before' = elements
         /\ UNCHANGED <<probeVars, elements, feedback, turnedOn, requestVars, stackVars>>
    ELSE UNCHANGED <<registryVars, probeVars, treeVars, requestVars, stackVars>>

handle(action) ==
    IF SetTypeHintsAction_is(action)
    THEN /\ shapeHints' = SetEach(shapeHints, action.shapeHints)
         /\ edgeHints' = SetEach(edgeHints, action.edgeHints)
         /\ feedback' = {ApplyTypeHintsAction_create}
         /\ passes' = 0
         /\ before' = elements
         /\ UNCHANGED <<probeVars, elements, turnedOn, requestVars, stackVars>>
    ELSE UNCHANGED <<registryVars, probeVars, treeVars, requestVars, stackVars>>

(***************************************************************************)
(* Resolution probed as a pure function: the registry and the type id are  *)
(* drawn from bounded sets, Resolve applies the resolver.                  *)
(***************************************************************************)
BareShapeHint(id) ==
    [elementTypeId |-> id, deletable |-> TRUE, repositionable |-> TRUE,
     resizable |-> FALSE, reparentable |-> FALSE, containableElementTypeIds |-> {}]

BareEdgeHint(id) ==
    [elementTypeId |-> id, deletable |-> TRUE, repositionable |-> FALSE,
     routable |-> TRUE, sourceElementTypeIds |-> {}, targetElementTypeIds |-> {}]

RECURSIVE KeySetsUpTo(_)
KeySetsUpTo(n) ==
    IF n = 0 THEN {{}}
    ELSE LET smaller == KeySetsUpTo(n - 1)
         IN  smaller \cup {K \cup {s} : K \in smaller, s \in Strings}

KeySets == KeySetsUpTo(MaxKeys)

NoProbe == [op |-> "none"]

InitResolve ==
    /\ \E K \in KeySets, shapes \in BOOLEAN :
          /\ shapeHints = [k \in (IF shapes THEN K ELSE {}) |-> BareShapeHint(k)]
          /\ edgeHints = [k \in (IF shapes THEN {} ELSE K) |-> BareEdgeHint(k)]
    /\ probe = NoProbe
    /\ answer = Undefined
    /\ NoTree
    /\ NoRequests
    /\ ingested = NoIngest
    /\ NoStack
    /\ NoDispatch

ResolveShape(t) ==
    /\ probe = NoProbe
    /\ probe' = [op |-> "getShapeTypeHint", type |-> t]
    /\ answer' = getShapeTypeHint([type |-> t])
    /\ UNCHANGED <<registryVars, treeVars, requestVars, ingested, stackVars, dispatchVars, notifier>>

ResolveEdge(t) ==
    /\ probe = NoProbe
    /\ probe' = [op |-> "getEdgeTypeHint", type |-> t]
    /\ answer' = getEdgeTypeHint([type |-> t])
    /\ UNCHANGED <<registryVars, treeVars, requestVars, ingested, stackVars, dispatchVars, notifier>>

NextResolve ==
    \/ \E t \in Strings : ResolveShape(t)
    \/ \E t \in Strings : ResolveEdge(t)

SpecResolve == InitResolve /\ [][NextResolve]_vars

(***************************************************************************)
(* Hint ingestion and application on a model tree.  The server's actions   *)
(* are drawn from a pool of hints for the ids node, node:task, graph, edge *)
(* and edge:task (written n, n:t, g, e, e:t); the tree holds elements of   *)
(* every class the command distinguishes, with and without a resolvable    *)
(* hint, with and without a feature set that is a Set.                     *)
(***************************************************************************)
TNode == <<"n">>
TTask == <<"n", Colon, "t">>
TGraph == <<"g">>
TEdge == <<"e">>
TEdgeTask == <<"e", Colon, "t">>
TComp == <<"c">>

ShapeHintPool ==
    { [elementTypeId |-> TNode, deletable |-> TRUE, repositionable |-> TRUE,
       resizable |-> FALSE, reparentable |-> FALSE],
      [elementTypeId |-> TNode, deletable |-> FALSE, repositionable |-> FALSE,
       resizable |-> TRUE, reparentable |-> TRUE,
       containableElementTypeIds |-> {TTask}],
      [elementTypeId |-> TTask, deletable |-> FALSE, repositionable |-> TRUE,
       resizable |-> TRUE, reparentable |-> FALSE,
       containableElementTypeIds |-> {}],
      [elementTypeId |-> TGraph, deletable |-> FALSE, repositionable |-> FALSE,
       resizable |-> FALSE, reparentable |-> FALSE,
       containableElementTypeIds |-> {TNode, TTask}] }

EdgeHintPool ==
    { [elementTypeId |-> TEdge, deletable |-> TRUE, repositionable |-> TRUE,
       routable |-> FALSE,
       sourceElementTypeIds |-> {TNode}, targetElementTypeIds |-> {TTask}],
      [elementTypeId |-> TEdge, deletable |-> FALSE, repositionable |-> FALSE,
       routable |-> TRUE,
       sourceElementTypeIds |-> {TTask}, targetElementTypeIds |-> {}],
      [elementTypeId |-> TEdgeTask, deletable |-> TRUE, repositionable |-> FALSE,
       routable |-> TRUE,
       sourceElementTypeIds |-> {TGraph, TTask}, targetElementTypeIds |-> {TNode}] }

UpToOne(pool) == {<<>>} \cup {<<h>> : h \in pool}

\* the setTypeHints actions of the server, and one that lacks its edgeHints
ServerActions ==
    {[kind |-> "setTypeHints", shapeHints |-> sh, edgeHints |-> eh] :
        sh \in UpToOne(ShapeHintPool), eh \in UpToOne(EdgeHintPool)}
    \cup {[kind |-> "setTypeHints", shapeHints |-> <<h>>] : h \in ShapeHintPool}

Element(class, type, features, modifiable) ==
    [class |-> class, type |-> type, features |-> features, modifiable |-> modifiable,
     isContainableElement |-> Undefined, canConnect |-> Undefined]

\* the same tree with its feature sets empty, full, or not Sets
Tree(features, modifiable) ==
    [id \in {"root", "s1", "s2", "e1", "e2", "o1"} |->
        CASE id = "root" -> Element("SModelRoot", TGraph, features, TRUE)
          [] id = "s1" -> Element("SShapeElement", TTask, features, modifiable)
          [] id = "s2" -> Element("SShapeElement", TComp, features, TRUE)
          [] id = "e1" -> Element("SEdge", TEdgeTask, features, modifiable)
          [] id = "e2" -> Element("SEdge", TNode, features, TRUE)
          [] id = "o1" -> Element("SModelElement", TNode, features, TRUE)]

Trees ==
    { Tree({}, TRUE), Tree(Features, TRUE),
      Tree({resizeFeature, editFeature}, FALSE) }

InitHints ==
    /\ shapeHints = EmptyMap
    /\ edgeHints = EmptyMap
    /\ probe = NoProbe
    /\ answer = Undefined
    /\ elements \in Trees
    /\ feedback = {}
    /\ before = elements
    /\ passes = 0
    /\ turnedOn = [id \in DOMAIN elements |-> {}]
    /\ NoRequests
    /\ ingested = NoIngest
    /\ NoStack
    /\ NoDispatch

NextHints ==
    \/ \E action \in ServerActions : handle(action) /\ UNCHANGED <<ingested, dispatchVars, notifier>>
    \/ execute

SpecHints == InitHints /\ [][NextHints]_vars

(***************************************************************************)
(* Ingestion on its own: the registry starts empty and the server's        *)
(* actions are handled one after another.  An action may name the same     *)
(* element type id twice.  `ingested` records the action handled, the      *)
(* registry it met, and whether the action handled just before was the     *)
(* same one.                                                               *)
(***************************************************************************)
UpToTwo(pool) == UpToOne(pool) \cup {<<g, h>> : g \in pool, h \in pool}

IngestActions ==
    {[kind |-> "setTypeHints", shapeHints |-> sh, edgeHints |-> eh] :
        sh \in UpToTwo(ShapeHintPool), eh \in UpToOne(EdgeHintPool)}
    \cup {[kind |-> "setTypeHints", shapeHints |-> <<h>>] : h \in ShapeHintPool}
    \cup {[kind |-> "setModel", shapeHints |-> <<h>>, edgeHints |-> <<>>] :
              h \in ShapeHintPool}

Ingested(action) ==
    [action |-> action, shapeHints |-> shapeHints, edgeHints |-> edgeHints,
     again |-> ingested.action = action]

InitIngest ==
    /\ shapeHints = EmptyMap
    /\ edgeHints = EmptyMap
    /\ probe = NoProbe
    /\ answer = Undefined
    /\ NoTree
    /\ NoRequests
    /\ ingested = NoIngest
    /\ NoStack
    /\ NoDispatch

Ingest(action) ==
    /\ handle(action)
    /\ ingested' = Ingested(action)
    /\ UNCHANGED <<dispatchVars, notifier>>

NextIngest == \E action \in IngestActions : Ingest(action)

SpecIngest == InitIngest /\ [][NextIngest]_vars

(***************************************************************************)
(* command-stack.ts : GLSPCommandStack                                     *)
(*                                                                         *)
(* A call of execute(command) takes the stack from Idle to Executing; the  *)
(* base class runs the command (Executed), the promise of its result       *)
(* resolves (Resolved) and, for a SetModelCommand or an UpdateModelCommand,*)
(* the callback chained on that promise notifies the listeners.            *)
(***************************************************************************)
ModelRootListeners == {"l1", "l2", "l3"}

\* the listeners whose modelRootChanged throws
Throwing == {"l2"}

\* an emitter that gives up at the first callback that throws
RECURSIVE Fire_StopsAtThrow(_, _)
Fire_StopsAtThrow(callbacks, root) ==
    IF callbacks = <<>> THEN <<>>
    ELSE <<[listener |-> Head(callbacks), root |-> root]>>
         \o (IF Head(callbacks) \in Throwing THEN <<>>
             ELSE Fire_StopsAtThrow(Tail(callbacks), root))

\* Emitter.fire : every callback is invoked with the event, in registration
\* order; what a callback throws is contained
RECURSIVE Fire(_, _)
Fire(callbacks, root) ==
    IF callbacks = <<>> THEN <<>>
    ELSE <<[listener |-> Head(callbacks), root |-> root]>>
         \o Fire(Tail(callbacks), root)

\* modelRootListeners.forEach(listener => this.onModelRootChanged(...)) :
\* each subscription is added after the ones the emitter holds
RECURSIVE SubscribeEach(_, _)
SubscribeEach(callbacks, listeners) ==
    IF listeners = <<>> THEN callbacks
    ELSE SubscribeEach(Append(callbacks, Head(listeners)), Tail(listeners))

\* subscriptions put in front of the ones the emitter holds
RECURSIVE SubscribeEach_InFront(_, _)
SubscribeEach_InFront(callbacks, listeners) ==
    IF listeners = <<>> THEN callbacks
    ELSE SubscribeEach_InFront(<<Head(listeners)>> \o callbacks, Tail(listeners))

initialize_InFront(modelRootListeners) ==
    [state |-> "Idle", command |-> Undefined, chained |-> FALSE, result |-> Undefined,
     modelRootListeners |-> modelRootListeners,
     callbacks |-> SubscribeEach_InFront(<<>>, modelRootListeners)]

\* initialize : the injected listeners subscribe to onModelRootChanged
initialize(modelRootListeners) ==
    [state |-> "Idle", command |-> Undefined, chained |-> FALSE, result |-> Undefined,
     modelRootListeners |-> modelRootListeners,
     callbacks |-> SubscribeEach(<<>>, modelRootListeners)]

SetModelCommand(newRoot) == [class |-> "SetModelCommand", newRoot |-> newRoot]
UpdateModelCommand(newRoot) == [class |-> "UpdateModelCommand", newRoot |-> newRoot]
SelectCommand == [class |-> "SelectCommand"]

\* a check that takes every command for a model command
IsModelCommand_Any(command) == "class" \in DOMAIN command

\* command instanceof SetModelCommand || command instanceof UpdateModelCommand
IsModelCommand(command) ==
    command.class \in {"SetModelCommand", "UpdateModelCommand"}

\* the commands whose execution puts a new root in place of the current one
ReplacesRoot(command) == "newRoot" \in DOMAIN command

\* an execute that starts its command while the one before it is under way
GLSPCommandStack_execute_Overlapping(command) ==
    /\ commandStack' = [commandStack EXCEPT !.state = "Executing", !.command = command,
                                            !.chained = IsModelCommand(command),
                                            !.result = Undefined]
    /\ stackLog' = [stackLog EXCEPT !.returned = [call |-> "execute", value |-> [promise |-> "result"]],
                                    !.notified = <<>>]
    /\ UNCHANGED <<registryVars, probeVars, treeVars, requestVars, ingested, dispatchVars>>

\* execute(command) up to its return: super.execute(command) is under way,
\* the notification is chained on its result for a model command only
GLSPCommandStack_execute(command) ==
    /\ commandStack.state = "Idle"
    /\ commandStack' = [commandStack EXCEPT !.state = "Executing", !.command = command,
                                            !.chained = IsModelCommand(command),
                                            !.result = Undefined]
    /\ stackLog' = [stackLog EXCEPT !.returned = [call |-> "execute", value |-> [promise |-> "result"]],
                                    !.notified = <<>>]
    /\ UNCHANGED <<registryVars, probeVars, treeVars, requestVars, ingested, dispatchVars>>

\* CommandStack.execute : the command runs; a model command puts its new
\* root in place of the current one
CommandStack_execute ==
    /\ commandStack.state = "Executing"
    /\ commandStack' = [commandStack EXCEPT !.state = "Executed"]
    /\ IF ReplacesRoot(commandStack.command)
       THEN /\ elements' = commandStack.command.newRoot
            /\ before' = commandStack.command.newRoot
            /\ passes' = 0
            /\ turnedOn' = [id \in DOMAIN commandStack.command.newRoot |-> {}]
       ELSE UNCHANGED <<elements, before, passes, turnedOn>>
    /\ UNCHANGED <<registryVars, probeVars, feedback, requestVars, ingested, stackLog, dispatchVars>>

\* the promise of the command's result resolves; for a model command the
\* registered feedback has been applied to the new root by then
Resolved_Early ==
    /\ commandStack.state = "Executed"
    /\ commandStack' =
          [commandStack EXCEPT
              !.state = IF commandStack.chained THEN "Resolved" ELSE "Idle",
              !.result = elements]
    /\ UNCHANGED <<registryVars, probeVars, treeVars, requestVars, ingested, stackLog, dispatchVars>>

Resolved ==
    /\ commandStack.state = "Executed"
    /\ (ReplacesRoot(commandStack.command) /\ feedback # {}) => passes > 0
    /\ Resolved_Early

\* a notification made from execute itself, not from the promise of the result
notifyListeners_Unchained ==
    /\ commandStack.state = "Executed"
    /\ commandStack.chained
    /\ commandStack' = [commandStack EXCEPT !.state = "Idle", !.result = elements]
    /\ stackLog' = [stackLog EXCEPT !.notified = Fire(commandStack.callbacks, elements)]
    /\ UNCHANGED <<registryVars, probeVars, treeVars, requestVars, ingested, dispatchVars>>

\* result.then(root => this.notifyListeners(root)) : onModelRootChangedEmitter.fire(root)
notifyListeners ==
    /\ commandStack.state = "Resolved"
    /\ commandStack' = [commandStack EXCEPT !.state = "Idle"]
    /\ stackLog' = [stackLog EXCEPT
                      !.notified = Fire(commandStack.callbacks, commandStack.result)]
    /\ UNCHANGED <<registryVars, probeVars, treeVars, requestVars, ingested, dispatchVars>>

\* an undo that rolls the model back to what it was before the last pass
Warned_RolledBack(call) ==
    /\ Len(stackLog.warnings) < MaxWarnings
    /\ stackLog' = [stackLog EXCEPT !.returned = [call |-> call, value |-> before],
                                    !.warnings = Append(@, call)]
    /\ elements' = before
    /\ UNCHANGED <<registryVars, probeVars, feedback, before, passes, turnedOn,
                   requestVars, ingested, commandStack, dispatchVars>>

\* logger.warn(...); return this.currentModel
Warned(call) ==
    /\ Len(stackLog.warnings) < MaxWarnings
    /\ stackLog' = [stackLog EXCEPT !.returned = [call |-> call, value |-> elements],
                                    !.warnings = Append(@, call)]
    /\ UNCHANGED <<registryVars, probeVars, treeVars, requestVars, ingested, commandStack, dispatchVars>>

undo == Warned("undo")

redo == Warned("redo")

\* the root of a diagram that has no model yet
EmptyRoot == [id \in {"root"} |-> Element("SModelRoot", <<"0">>, {}, TRUE)]

ListenerOrders == {<<"l2", "l1">>, <<"l1", "l2", "l3">>}

\* the setTypeHints actions the stack is run with
StackActions ==
    {[kind |-> "setTypeHints", shapeHints |-> <<p[1]>>, edgeHints |-> <<p[2]>>] :
        p \in {q \in ShapeHintPool \X EdgeHintPool :
                  /\ q[1].elementTypeId = TNode
                  /\ q[2].elementTypeId = TEdge
                  /\ q[1].deletable = q[2].deletable}}

Commands ==
    {SetModelCommand(root) : root \in Trees}
    \cup {UpdateModelCommand(root) : root \in Trees}
    \cup {SelectCommand}

InitStack ==
    /\ shapeHints = EmptyMap
    /\ edgeHints = EmptyMap
    /\ probe = NoProbe
    /\ answer = Undefined
    /\ elements = EmptyRoot
    /\ feedback = {}
    /\ before = elements
    /\ passes = 0
    /\ turnedOn = [id \in DOMAIN elements |-> {}]
    /\ NoRequests
    /\ ingested = NoIngest
    /\ \E order \in ListenerOrders : commandStack = initialize(order)
    /\ stackLog = [returned |-> Undefined, notified |-> <<>>, warnings |-> <<>>]
    /\ notifier = NoCalls
    /\ NoDispatch

NextStack ==
    \/ \E action \in StackActions :
          commandStack.state = "Idle" /\ handle(action) /\ UNCHANGED <<ingested, dispatchVars, notifier>>
    \/ execute
    \/ \E command \in Commands : GLSPCommandStack_execute(command) /\ UNCHANGED notifier
    \/ CommandStack_execute /\ UNCHANGED notifier
    \/ Resolved /\ UNCHANGED notifier
    \/ notifyListeners /\ UNCHANGED notifier
    \/ undo /\ UNCHANGED notifier
    \/ redo /\ UNCHANGED notifier

SpecStack == InitStack /\ [][NextStack]_vars

\* execute is enabled exactly when the registered feedback is due, and it is
\* the only step that counts a pass
ApplyDue == ApplyTypeHintsAction_create \in feedback /\ passes < MaxPasses

\* WF_vars(execute), written out over ApplyDue and the pass counter so that
\* it is decided without running the traversal
ExecuteFair == []<>(~ApplyDue) \/ []<><<passes' = passes + 1>>_passes

\* the dispatcher hands every queued action on, and every promise settles
SpecStackFair ==
    /\ SpecStack
    /\ ExecuteFair
    /\ WF_vars(CommandStack_execute /\ UNCHANGED notifier)
    /\ WF_vars(Resolved /\ UNCHANGED notifier)
    /\ WF_vars(notifyListeners /\ UNCHANGED notifier)

(***************************************************************************)
(* The notifier under calls made at any time                               *)
(*                                                                         *)
(* execute may be called while another command is under way; the command   *)
(* stack then runs the commands one after the other, in the order of the   *)
(* calls.  notifier keeps the calls waiting, the tickets of the commands   *)
(* begun and the tickets whose model-root-changed event was delivered.     *)
(***************************************************************************)
NotifierCommands ==
    {SetModelCommand(Tree({}, TRUE)), UpdateModelCommand(Tree(Features, TRUE)),
     SelectCommand}

\* execute(command) is called: the command waits behind the ones called before
Called(command) ==
    /\ notifier.calls < MaxExecutes
    /\ notifier' = [notifier EXCEPT
                      !.calls = @ + 1,
                      !.pending = Append(@, [ticket |-> notifier.calls + 1,
                                             command |-> command])]
    /\ UNCHANGED <<registryVars, probeVars, treeVars, requestVars, ingested, stackVars,
                   dispatchVars>>

\* a waiting command is begun whatever the stack is doing
Taken_Overlapping ==
    /\ notifier.pending # <<>>
    /\ GLSPCommandStack_execute_Overlapping(Head(notifier.pending).command)
    /\ notifier' = [notifier EXCEPT
                      !.pending = Tail(@),
                      !.begun = Append(@, [ticket |-> Head(notifier.pending).ticket,
                                           chained |-> commandStack'.chained])]

\* the command called first among the waiting ones is begun once the stack
\* is idle again
Taken ==
    /\ notifier.pending # <<>>
    /\ GLSPCommandStack_execute(Head(notifier.pending).command)
    /\ notifier' = [notifier EXCEPT
                      !.pending = Tail(@),
                      !.begun = Append(@, [ticket |-> Head(notifier.pending).ticket,
                                           chained |-> commandStack'.chained])]

\* the listeners are told of the root the command begun last has produced
Delivered ==
    /\ notifyListeners
    /\ notifier' = [notifier EXCEPT
                      !.delivered = Append(@, notifier.begun[Len(notifier.begun)].ticket)]

InitNotifier ==
    /\ shapeHints = EmptyMap
    /\ edgeHints = EmptyMap
    /\ probe = NoProbe
    /\ answer = Undefined
    /\ elements = EmptyRoot
    /\ feedback = {}
    /\ before = elements
    /\ passes = 0
    /\ turnedOn = [id \in DOMAIN elements |-> {}]
    /\ NoRequests
    /\ ingested = NoIngest
    /\ \E order \in ListenerOrders : commandStack = initialize(order)
    /\ stackLog = [returned |-> Undefined, notified |-> <<>>, warnings |-> <<>>]
    /\ notifier = NoCalls
    /\ NoDispatch

NextNotifier ==
    \/ \E command \in NotifierCommands : Called(command)
    \/ Taken
    \/ CommandStack_execute /\ UNCHANGED notifier
    \/ Resolved /\ UNCHANGED notifier
    \/ Delivered

SpecNotifier == InitNotifier /\ [][NextNotifier]_vars

(***************************************************************************)
(* getValidEdgeElementTypes probed as a pure function: the edge hints are  *)
(* drawn from bounded sets of endpoint ids, ProbeValidEdges applies it.    *)
(***************************************************************************)
TSegment == <<"t">>
TUser == <<"n", Colon, "t", Colon, "u">>

EndpointIds == {<<>>, TNode, TTask, TSegment}

RECURSIVE EndpointSetsUpTo(_)
EndpointSetsUpTo(n) ==
    IF n = 0 THEN {{}}
    ELSE LET smaller == EndpointSetsUpTo(n - 1)
         IN  smaller \cup {S \cup {t} : S \in smaller, t \in EndpointIds}

EndpointSets == EndpointSetsUpTo(MaxEndpoints)

ProbedTypes == {TNode, TTask, TUser, TSegment, TComp}

EdgeHintsOf(id) ==
    {[elementTypeId |-> id, deletable |-> TRUE, repositionable |-> TRUE,
      routable |-> TRUE, sourceElementTypeIds |-> S, targetElementTypeIds |-> T] :
        S \in EndpointSets, T \in EndpointSets}

EdgeRegistries ==
    {EmptyMap}
    \cup {[k \in {TEdge} |-> h] : h \in EdgeHintsOf(TEdge)}
    \cup {[k \in {TEdge, TEdgeTask} |-> IF k = TEdge THEN h ELSE g] :
            h \in EdgeHintsOf(TEdge), g \in EdgeHintsOf(TEdgeTask)}

InitEndpoints ==
    /\ shapeHints = EmptyMap
    /\ edgeHints \in EdgeRegistries
    /\ probe = NoProbe
    /\ answer = Undefined
    /\ NoTree
    /\ NoRequests
    /\ ingested = NoIngest
    /\ NoStack
    /\ NoDispatch

ProbeValidEdges(t, role) ==
    /\ probe = NoProbe
    /\ probe' = [op |-> "getValidEdgeElementTypes", type |-> t, role |-> role]
    /\ answer' = getValidEdgeElementTypes([type |-> t], role)
    /\ UNCHANGED <<registryVars, treeVars, requestVars, ingested, stackVars, dispatchVars, notifier>>

NextEndpoints == \E t \in ProbedTypes, role \in {"source", "target"} : ProbeValidEdges(t, role)

SpecEndpoints == InitEndpoints /\ [][NextEndpoints]_vars

(***************************************************************************)
(* The action guards and the validation status of the protocol             *)
(***************************************************************************)
\* Action.hasKind
hasKind(object, kind) == "kind" \in DOMAIN object /\ object.kind = kind

\* SetContextActions.is : the kind and the actions array
SetContextActions_is(object) ==
    hasKind(object, "setContextActions") /\ "actions" \in DOMAIN object

\* SetEditValidationResultAction.is : the kind and the status
SetEditValidationResultAction_is(object) ==
    hasKind(object, "setEditValidationResult") /\ "status" \in DOMAIN object

ValidationStatus_isError(status) == status.severity \in {"FATAL", "ERROR"}

ValidationStatus_isWarning(status) == status.severity = "WARNING"

(***************************************************************************)
(* The context menu item provider and the label edit validator             *)
(***************************************************************************)
ServerContextMenu_CONTEXT_ID == "context-menu"
LabelEditValidation_CONTEXT_ID == "label-edit"

\* a slip: the actions of the response are dropped
getContextActionsFromResponse_Empty(action) == <<>>

getContextActionsFromResponse(action) ==
    IF SetContextActions_is(action) THEN action.actions ELSE <<>>

\* a slip: a warning is not told from a status that is fine
toEditLabelValidationResult_NoWarning(status) ==
    [message |-> status.message,
     severity |-> IF ValidationStatus_isError(status) THEN "error" ELSE "ok"]

toEditLabelValidationResult(status) ==
    [message |-> status.message,
     severity |-> IF ValidationStatus_isError(status) THEN "error"
                  ELSE IF ValidationStatus_isWarning(status) THEN "warning"
                  ELSE "ok"]

\* a validator that takes what it does not recognise for an error
getValidationResultFromResponse_Strict(action) ==
    IF SetEditValidationResultAction_is(action)
    THEN toEditLabelValidationResult(action.status)
    ELSE [severity |-> "error"]

getValidationResultFromResponse(action) ==
    IF SetEditValidationResultAction_is(action)
    THEN toEditLabelValidationResult(action.status)
    ELSE [severity |-> "ok"]

createValidationRequestAction(value, labelId) ==
    [kind |-> "requestEditValidation", contextId |-> LabelEditValidation_CONTEXT_ID,
     modelElementId |-> labelId, text |-> value]

\* the callback each helper chains on the promise of requestUntil
Then(helper, response) ==
    IF helper = "getItems" THEN getContextActionsFromResponse(response)
    ELSE getValidationResultFromResponse(response)

(***************************************************************************)
(* The action dispatcher: dispatch and requestUntil.  d is the record of   *)
(* the dispatcher's pending requests, the helpers' promises, the actions   *)
(* dispatched and the bookkeeping of the calls.                            *)
(***************************************************************************)
Dispatcher == [requests |-> requests, futures |-> futures,
               dispatched |-> dispatched, calls |-> calls]

\* the match predicate of a pending request: the kind of the expected response
Matches(request, action) == hasKind(action, request.responseKind)

\* a slip: the entries that matched stay registered
Unregistered_Keeps(pending, hit) == pending

\* the pending requests without those that just matched
Unregistered(pending, hit) == [c \in (DOMAIN pending) \ hit |-> pending[c]]

\* dispatch(action): the action is delivered, and every pending request whose
\* predicate it satisfies is removed and resolved with it
Dispatched(d, action) ==
    LET hit == {c \in DOMAIN d.requests : Matches(d.requests[c], action)}
    IN  [requests |-> Unregistered(d.requests, hit),
         futures |-> [c \in DOMAIN d.futures |->
                        IF c \in hit
                        THEN [state |-> "resolved",
                              value |-> Then(d.calls[c].helper, action)]
                        ELSE d.futures[c]],
         dispatched |-> Append(d.dispatched, action),
         calls |-> [c \in DOMAIN d.calls |->
                        IF c \in hit
                        THEN [d.calls[c] EXCEPT !.settled = @ + 1,
                                                !.resolvedAt = Len(d.dispatched) + 1]
                        ELSE d.calls[c]]]

\* requestUntil(requestAction) of call c: the request is dispatched and the
\* call waits for the first action dispatched after it that matches
RequestedUntil(d, c, helper, requestAction, responseKind) ==
    LET sent == Dispatched(d, requestAction)
    IN  [requests |-> MapSet(sent.requests, c, [responseKind |-> responseKind]),
         futures |-> MapSet(sent.futures, c, [state |-> "pending"]),
         dispatched |-> sent.dispatched,
         calls |-> MapSet(sent.calls, c,
                          [helper |-> helper, requestedAt |-> Len(sent.dispatched),
                           settled |-> 0, resolvedAt |-> 0])]

Becomes(d) ==
    /\ requests' = d.requests
    /\ futures' = d.futures
    /\ dispatched' = d.dispatched
    /\ calls' = d.calls

NewCall(c) ==
    /\ c = Cardinality(DOMAIN calls) + 1
    /\ c <= MaxCalls
    /\ Len(dispatched) < MaxDispatched

\* a slip: the promise of requestUntil is not chained, the items are those of
\* no response
getItems_Eager(c, root) ==
    /\ NewCall(c)
    /\ LET selectedElementIds == {id \in DOMAIN root : root[id].selected}
           editorContext == [selectedElementIds |-> selectedElementIds]
           requestAction == [kind |-> "requestContextActions",
                             contextId |-> ServerContextMenu_CONTEXT_ID,
                             editorContext |-> editorContext]
           d == RequestedUntil(Dispatcher, c, "getItems", requestAction,
                               "setContextActions")
       IN  Becomes([d EXCEPT !.futures[c] =
                      [state |-> "resolved",
                       value |-> getContextActionsFromResponse(Undefined)]])
    /\ UNCHANGED <<registryVars, probeVars, treeVars, ingested, stackVars, dispatchVars, notifier>>

\* ServerContextMenuItemProvider.getItems
getItems(c, root) ==
    /\ NewCall(c)
    /\ LET selectedElementIds == {id \in DOMAIN root : root[id].selected}
           editorContext == [selectedElementIds |-> selectedElementIds]
           requestAction == [kind |-> "requestContextActions",
                             contextId |-> ServerContextMenu_CONTEXT_ID,
                             editorContext |-> editorContext]
       IN  Becomes(RequestedUntil(Dispatcher, c, "getItems", requestAction,
                                  "setContextActions"))
    /\ UNCHANGED <<registryVars, probeVars, treeVars, ingested, stackVars, dispatchVars, notifier>>

\* ServerEditLabelValidator.validate
validate(c, value, label) ==
    /\ NewCall(c)
    /\ LET action == createValidationRequestAction(value, label.id)
       IN  Becomes(RequestedUntil(Dispatcher, c, "validate", action,
                                  "setEditValidationResult"))
    /\ UNCHANGED <<registryVars, probeVars, treeVars, ingested, stackVars, dispatchVars, notifier>>

\* an action of the server, or of another part of the client, is dispatched
dispatch(action) ==
    /\ Len(dispatched) < MaxDispatched
    /\ Becomes(Dispatched(Dispatcher, action))
    /\ UNCHANGED <<registryVars, probeVars, treeVars, ingested, stackVars, dispatchVars, notifier>>

\* the actions that arrive: two answers to each request, a setContextActions
\* without its actions, and a status notification
ArrivingActions ==
    { [kind |-> "setContextActions", actions |-> <<"copy">>],
      [kind |-> "setContextActions", actions |-> <<"paste", "delete">>],
      [kind |-> "setContextActions"],
      [kind |-> "setEditValidationResult",
       status |-> [severity |-> "ERROR", message |-> "taken"]],
      [kind |-> "setEditValidationResult",
       status |-> [severity |-> "OK", message |-> ""]],
      [kind |-> "serverStatus", severity |-> "INFO", message |-> "saved"] }

SelectionRoots ==
    {[id \in {"root", "s1"} |-> [id |-> id, selected |-> id \in sel]] :
        sel \in {{}, {"s1"}}}

InitRequests ==
    /\ shapeHints = EmptyMap
    /\ edgeHints = EmptyMap
    /\ probe = NoProbe
    /\ answer = Undefined
    /\ NoTree
    /\ NoRequests
    /\ ingested = NoIngest
    /\ NoStack
    /\ NoDispatch

NextRequests ==
    \/ \E c \in 1..MaxCalls, root \in SelectionRoots : getItems(c, root)
    \/ \E c \in 1..MaxCalls, value \in {"", "task"} : validate(c, value, [id |-> "l1"])
    \/ \E action \in ArrivingActions : dispatch(action)

SpecRequests == InitRequests /\ [][NextRequests]_vars

(***************************************************************************)
(* The callbacks of the two helpers probed as pure functions: the value    *)
(* the promise of requestUntil resolves with is drawn from the responses   *)
(* below (none at all, of the expected kind or not, with or without the    *)
(* field the guard asks for), Settle applies the callback to it.           *)
(***************************************************************************)
ResponseKinds == {"setContextActions", "setEditValidationResult", "serverStatus"}

LabeledActions == {"copy", "paste"}

ActionLists ==
    {<<>>} \cup {<<a>> : a \in LabeledActions}
    \cup {<<a, b>> : a \in LabeledActions, b \in LabeledActions}

ValidationStatuses ==
    {[severity |-> s, message |-> msg] :
        s \in {"NONE", "OK", "INFO", "WARNING", "ERROR", "FATAL"},
        msg \in {"", "taken"}}

Responses ==
    {Undefined}
    \cup {[kind |-> k] : k \in ResponseKinds}
    \cup {[kind |-> k, actions |-> as] : k \in ResponseKinds, as \in ActionLists}
    \cup {[kind |-> k, status |-> st] : k \in ResponseKinds, st \in ValidationStatuses}

InitResponses ==
    /\ shapeHints = EmptyMap
    /\ edgeHints = EmptyMap
    /\ probe = NoProbe
    /\ answer = Undefined
    /\ NoTree
    /\ NoRequests
    /\ ingested = NoIngest
    /\ NoStack
    /\ NoDispatch

\* requestUntil(...).then(response => ...) once the promise has resolved
Settle(helper, response) ==
    /\ probe = NoProbe
    /\ probe' = [op |-> helper, response |-> response]
    /\ answer' = Then(helper, response)
    /\ UNCHANGED <<registryVars, treeVars, requestVars, ingested, stackVars, dispatchVars, notifier>>

NextResponses ==
    \E helper \in {"getItems", "validate"}, response \in Responses :
        Settle(helper, response)

SpecResponses == InitResponses /\ [][NextResponses]_vars

(***************************************************************************)
(* Colon-segment prefixes, stated on the characters of the id and not by   *)
(* way of Split and Join.                                                  *)
(***************************************************************************)
\* p is t, or p is t cut before one of its colons, or p is the empty id
IsSegmentPrefix(p, t) ==
    \/ p = t
    \/ p = <<>>
    \/ /\ Len(p) < Len(t)
       /\ SubSeq(t, 1, Len(p)) = p
       /\ t[Len(p) + 1] = Colon

RegisteredPrefixes(t, R) == {p \in DOMAIN R : IsSegmentPrefix(p, t)}

LongestRegisteredPrefix(t, R) ==
    CHOOSE p \in RegisteredPrefixes(t, R) :
        \A q \in RegisteredPrefixes(t, R) : Len(q) <= Len(p)

HintOfLongestPrefix(t, R) ==
    IF RegisteredPrefixes(t, R) = {} THEN Undefined
    ELSE R[LongestRegisteredPrefix(t, R)]

\* C1: getShapeTypeHint(t) and getEdgeTypeHint(t) return the hint stored under
\* the longest colon-segment prefix of t that is a key of the registry (t
\* itself before any ancestor, the nearest ancestor before a farther one) and
\* undefined when no prefix of t is a key.
C1_LongestPrefixWins ==
    /\ probe.op = "getShapeTypeHint" =>
           answer = HintOfLongestPrefix(probe.type, shapeHints)
    /\ probe.op = "getEdgeTypeHint" =>
           answer = HintOfLongestPrefix(probe.type, edgeHints)

\* two ancestors of the probed id are registered, the id itself is not, and
\* the nearer ancestor was returned
C1_Witness ==
    /\ probe.op = "getShapeTypeHint"
    /\ probe.type \notin DOMAIN shapeHints
    /\ Cardinality(RegisteredPrefixes(probe.type, shapeHints)) = 2
    /\ answer # Undefined
    /\ answer.elementTypeId # <<>>

(***************************************************************************)
(* Application passes.  passes >= 1 says that the last step was a pass of  *)
(* ApplyTypeHintsCommand.execute over the elements recorded in before.     *)
(***************************************************************************)
ShapeLike(e) == e.class \in {"SShapeElement", "SModelRoot"}
EdgeLike(e) == e.class = "SEdge"
Ids == DOMAIN elements
Roles == {"source", "target"}

\* C5: after a pass, a shape-like element with a resolving shape hint h and a
\* modifiable feature set has deletable iff h.deletable, movable iff
\* h.repositionable, resizable iff h.resizable, reparentable iff
\* h.reparentable, and has containable and connectable whatever h says.
C5_ShapeTokensFollowHint ==
    passes >= 1 =>
        \A id \in Ids :
            LET e == elements[id]
                h == HintOfLongestPrefix(e.type, shapeHints)
            IN  (ShapeLike(e) /\ h # Undefined /\ e.modifiable) =>
                    /\ deletableFeature \in e.features <=> h.deletable
                    /\ moveFeature \in e.features <=> h.repositionable
                    /\ resizeFeature \in e.features <=> h.resizable
                    /\ reparentFeature \in e.features <=> h.reparentable
                    /\ containerFeature \in e.features
                    /\ connectableFeature \in e.features

\* the hint of node {deletable, repositionable; not resizable, reparentable}
\* reached the element of type node:task, whose tokens were all set before
C5_Witness ==
    /\ passes >= 1
    /\ TTask \notin DOMAIN shapeHints
    /\ TNode \in DOMAIN shapeHints
    /\ shapeHints[TNode].deletable /\ ~shapeHints[TNode].resizable
    /\ before["s1"].features = Features
    /\ elements["s1"].features =
          Features \ {resizeFeature, reparentFeature}

\* The statement of C6 as written: after a pass, every edge with a resolving
\* edge hint h has deletable iff h.deletable, editable iff h.routable,
\* reconnectable iff h.repositionable, its other tokens as before the pass.
C6_AsWritten ==
    passes >= 1 =>
        \A id \in Ids :
            LET e == elements[id]
                h == HintOfLongestPrefix(e.type, edgeHints)
            IN  (EdgeLike(e) /\ h # Undefined) =>
                    /\ deletableFeature \in e.features <=> h.deletable
                    /\ editFeature \in e.features <=> h.routable
                    /\ reconnectFeature \in e.features <=> h.repositionable
                    /\ e.features \ {deletableFeature, editFeature, reconnectFeature}
                         = before[id].features
                              \ {deletableFeature, editFeature, reconnectFeature}

\* C6: after a pass, every edge with a resolving edge hint h and a modifiable
\* feature set has deletable iff h.deletable, editable iff h.routable,
\* reconnectable iff h.repositionable; every other token of any edge is as it
\* was before the pass.
C6_EdgeTokensFollowHint ==
    passes >= 1 =>
        \A id \in Ids :
            LET e == elements[id]
                h == HintOfLongestPrefix(e.type, edgeHints)
            IN  (EdgeLike(e) /\ h # Undefined) =>
                    /\ e.modifiable =>
                          /\ deletableFeature \in e.features <=> h.deletable
                          /\ editFeature \in e.features <=> h.routable
                          /\ reconnectFeature \in e.features <=> h.repositionable
                    /\ e.features \ {deletableFeature, editFeature, reconnectFeature}
                         = before[id].features
                              \ {deletableFeature, editFeature, reconnectFeature}

\* a pass changed the three tokens of the edge e1 and kept its other five
C6_Witness ==
    /\ passes >= 1
    /\ elements["e1"].modifiable
    /\ HintOfLongestPrefix(elements["e1"].type, edgeHints) # Undefined
    /\ before["e1"].features = Features
    /\ elements["e1"].features # Features
    /\ {moveFeature, resizeFeature, reparentFeature, containerFeature,
        connectableFeature} \subseteq elements["e1"].features

\* no key of the registry of the element's kind is a prefix of its type id
NoHintOfItsKind(e) ==
    \/ ShapeLike(e) /\ RegisteredPrefixes(e.type, shapeHints) = {}
    \/ EdgeLike(e) /\ RegisteredPrefixes(e.type, edgeHints) = {}

\* C7: an element with no hint of its kind under its type id or any prefix of
\* it has, after a pass, the feature set and the canConnect and
\* isContainableElement predicates it had before the pass.
C7_NoHintNoMutation ==
    passes >= 1 =>
        \A id \in Ids :
            NoHintOfItsKind(elements[id]) =>
                /\ elements[id].features = before[id].features
                /\ elements[id].canConnect = before[id].canConnect
                /\ elements[id].isContainableElement = before[id].isContainableElement

\* a pass that changed s1 left the shape s2 and the edge e2, which have no
\* hint of their kind, with all their tokens (the edge's type id n has a
\* shape hint)
C7_Witness ==
    /\ passes >= 1
    /\ elements["s1"] # before["s1"]
    /\ TNode \in DOMAIN shapeHints
    /\ NoHintOfItsKind(elements["s2"]) /\ elements["s2"].features = Features
    /\ NoHintOfItsKind(elements["e2"]) /\ elements["e2"].features = Features

\* C8: a second pass in a row over the same tree and registry leaves every
\* feature set as the first pass left it, and canConnect and
\* isContainableElement answer as after the first pass for every candidate
\* and role.
C8_SecondPassChangesNothing ==
    passes >= 2 =>
        \A id \in Ids :
            /\ elements[id].features = before[id].features
            /\ \A c \in Ids :
                  /\ isContainableElement(elements[id], elements[c])
                       = isContainableElement(before[id], elements[c])
                  /\ \A role \in Roles :
                        canConnect(elements[id], elements[c], role)
                          = canConnect(before[id], elements[c], role)

\* two passes in a row, the first of which removed tokens of s1 and gave it
\* its predicates
C8_Witness ==
    /\ passes = 2
    /\ elements["s1"].canConnect # Undefined
    /\ elements["s1"].features \notin {{}, Features}
    /\ elements["e1"].features \notin {{}, Features}

\* the edge types that may end at type id t in the given role
ValidEdgeTypesOf(t, role) ==
    {k \in DOMAIN edgeHints :
        \E p \in (IF role = "source" THEN edgeHints[k].sourceElementTypeIds
                                     ELSE edgeHints[k].targetElementTypeIds) :
            IsSegmentPrefix(p, t)}

\* the ids the hint now resolved for t lets it contain
ContainableIdsOf(t) ==
    LET h == HintOfLongestPrefix(t, shapeHints)
    IN  IF h # Undefined /\ "containableElementTypeIds" \in DOMAIN h
        THEN h.containableElementTypeIds ELSE {}

\* C9: after ingestions each followed by a pass, a token that an earlier hint
\* turned on and the hint now resolved turns off is absent, and the
\* predicates a pass assigned answer by the registry as it is now.
C9_NoStaleTokens ==
    passes >= 1 =>
        \A id \in Ids :
            LET e == elements[id]
            IN  /\ \A token \in turnedOn[id] \cap TokensOff(e) : token \notin e.features
                /\ e.canConnect # Undefined =>
                      \A c \in Ids, role \in Roles :
                          canConnect(e, elements[c], role)
                            <=> elements[c].type \in ValidEdgeTypesOf(e.type, role)
                /\ e.isContainableElement # Undefined =>
                      \A c \in Ids :
                          isContainableElement(e, elements[c])
                            <=> elements[c].type \in ContainableIdsOf(e.type)

\* an earlier pass turned deletable on for s1, the hint resolved now turns it
\* off, and the pass replaced predicates of s1 that an earlier pass assigned
C9_Witness ==
    /\ passes >= 1
    /\ deletableFeature \in turnedOn["s1"] \cap TokensOff(elements["s1"])
    /\ before["s1"].canConnect # Undefined
    /\ before["s1"].canConnect # elements["s1"].canConnect
    /\ before["s1"].isContainableElement # elements["s1"].isContainableElement

\* C10: getValidEdgeElementTypes(t, role) is exactly the set of the
\* elementTypeIds of the edge hints whose sourceElementTypeIds (role source)
\* or targetElementTypeIds (role target) hold t or a colon-segment prefix of t.
C10_ValidEdgeTypesExact ==
    probe.op = "getValidEdgeElementTypes" =>
        answer = ValidEdgeTypesOf(probe.type, probe.role)

\* node:task was probed as a target: one edge type is valid by an ancestor
\* among its target ids, the other is not although node:task and its last
\* segment are among its source ids
C10_Witness ==
    /\ probe.op = "getValidEdgeElementTypes"
    /\ probe.type = TTask /\ probe.role = "target"
    /\ DOMAIN edgeHints = {TEdge, TEdgeTask}
    /\ edgeHints[TEdge].targetElementTypeIds = {TNode}
    /\ edgeHints[TEdgeTask].targetElementTypeIds = {TSegment}
    /\ edgeHints[TEdgeTask].sourceElementTypeIds = {TTask, TSegment}
    /\ answer = {TEdge}

(***************************************************************************)
(* Correlated requests, read off the actions dispatched                    *)
(***************************************************************************)
\* the kind of the response a call waits for
ExpectedKind(c) ==
    IF calls[c].helper = "getItems" THEN "setContextActions"
    ELSE "setEditValidationResult"

\* the places, after the call's request, of the dispatched actions of that kind
MatchingAfter(c) ==
    {i \in (calls[c].requestedAt + 1)..Len(dispatched) :
        dispatched[i].kind = ExpectedKind(c)}

FirstMatching(c) == CHOOSE i \in MatchingAfter(c) : \A j \in MatchingAfter(c) : i <= j

Str(s) == [string |-> s]
Num(n) == [number |-> n]

\* typeof value === 'string'
IsString(value) == "string" \in DOMAIN value

\* hasStringProp : the object owns the property and its value is a string
hasStringProp(object, prop) == prop \in DOMAIN object /\ IsString(object[prop])

\* { ...base, ...options } : every own property of options, the ones whose
\* value is undefined included, overrides the property of base
Spread(base, options) ==
    [f \in (DOMAIN base) \cup (DOMAIN options) |->
        IF f \in DOMAIN options THEN options[f] ELSE base[f]]

ServerStatusAction_KIND == "serverStatus"
ServerMessageAction_KIND == "serverMessage"
StartProgressAction_KIND == "startProgress"
UpdateProgressAction_KIND == "updateProgress"
EndProgressAction_KIND == "endProgress"
ApplyTypeHintsAction_KIND == "applyTypeHints"

ServerSeverity == {"NONE", "INFO", "WARNING", "ERROR", "FATAL", "OK"}

\* a guard that looks at the two strings and not at the kind
ServerStatusAction_is_AnyKind(object) ==
    /\ hasStringProp(object, "severity")
    /\ hasStringProp(object, "message")

ServerStatusAction_is(object) ==
    /\ hasKind(object, ServerStatusAction_KIND)
    /\ hasStringProp(object, "severity")
    /\ hasStringProp(object, "message")

ServerStatusAction_create(message, options) ==
    Spread([kind |-> ServerStatusAction_KIND, severity |-> Str("INFO"),
            message |-> message],
           options)

ServerMessageAction_is(object) ==
    /\ hasKind(object, ServerMessageAction_KIND)
    /\ hasStringProp(object, "message")
    /\ hasStringProp(object, "severity")

ServerMessageAction_create(message, options) ==
    Spread([kind |-> ServerMessageAction_KIND, message |-> message,
            severity |-> Str("INFO")],
           options)

StartProgressAction_is(object) ==
    /\ hasKind(object, StartProgressAction_KIND)
    /\ hasStringProp(object, "progressId")
    /\ hasStringProp(object, "title")

UpdateProgressAction_is(object) ==
    /\ hasKind(object, UpdateProgressAction_KIND)
    /\ hasStringProp(object, "progressId")

EndProgressAction_is(object) ==
    /\ hasKind(object, EndProgressAction_KIND)
    /\ hasStringProp(object, "progressId")

ApplyTypeHintsAction_is(object) == hasKind(object, ApplyTypeHintsAction_KIND)

\* the six guards, by the name of their variant
Guarded(object) ==
    [ServerStatusAction |-> ServerStatusAction_is(object),
     ServerMessageAction |-> ServerMessageAction_is(object),
     StartProgressAction |-> StartProgressAction_is(object),
     UpdateProgressAction |-> UpdateProgressAction_is(object),
     EndProgressAction |-> EndProgressAction_is(object),
     ApplyTypeHintsAction |-> ApplyTypeHintsAction_is(object)]

\* the objects the guards are probed with: any kind or none, and each of
\* the four properties absent, a string or a number
PropertyValues == {Undefined, Str("x"), Num(1)}

ObjectKinds ==
    {ServerStatusAction_KIND, ServerMessageAction_KIND, StartProgressAction_KIND,
     UpdateProgressAction_KIND, EndProgressAction_KIND, ApplyTypeHintsAction_KIND,
     "setModel"}

WithProps(base, props, values) ==
    [f \in (DOMAIN base) \cup props |-> IF f \in props THEN values[f] ELSE base[f]]

GuardObjects ==
    LET names == {"severity", "message", "progressId", "title"}
        bases == {[kind |-> k] : k \in ObjectKinds} \cup {[id |-> "o"]}
    IN  {WithProps(base, {f \in names : values[f] # Undefined}, values) :
            base \in bases, values \in [names -> PropertyValues]}

\* the options create is probed with: severity and the second option each
\* omitted, carried as undefined, or given
SeverityOptions ==
    {[o \in {} |-> Undefined], [severity |-> Undefined]}
    \cup {[severity |-> Str(s)] : s \in ServerSeverity}

OptionsWith(name, given) ==
    {Spread(o, extra) :
        o \in SeverityOptions,
        extra \in {[x \in {} |-> Undefined], [x \in {name} |-> Undefined],
                   [x \in {name} |-> given]}}

Messages == {Str(""), Str("saved")}

InitNotifications ==
    /\ shapeHints = EmptyMap
    /\ edgeHints = EmptyMap
    /\ probe = NoProbe
    /\ answer = Undefined
    /\ NoTree
    /\ NoRequests
    /\ ingested = NoIngest
    /\ NoStack
    /\ NoDispatch

ProbeGuards(object) ==
    /\ probe = NoProbe
    /\ probe' = [op |-> "is", object |-> object]
    /\ answer' = Guarded(object)
    /\ UNCHANGED <<registryVars, treeVars, requestVars, ingested, stackVars, dispatchVars, notifier>>

CreateStatus(message, options) ==
    /\ probe = NoProbe
    /\ probe' = [op |-> "ServerStatusAction.create", message |-> message,
                 options |-> options]
    /\ answer' = ServerStatusAction_create(message, options)
    /\ UNCHANGED <<registryVars, treeVars, requestVars, ingested, stackVars, dispatchVars, notifier>>

CreateMessage(message, options) ==
    /\ probe = NoProbe
    /\ probe' = [op |-> "ServerMessageAction.create", message |-> message,
                 options |-> options]
    /\ answer' = ServerMessageAction_create(message, options)
    /\ UNCHANGED <<registryVars, treeVars, requestVars, ingested, stackVars, dispatchVars, notifier>>

NextNotifications ==
    \/ \E object \in GuardObjects : ProbeGuards(object)
    \/ \E message \in Messages, options \in OptionsWith("timeout", Num(5)) :
          CreateStatus(message, options)
    \/ \E message \in Messages, options \in OptionsWith("details", Str("why")) :
          CreateMessage(message, options)

SpecNotifications == InitNotifications /\ [][NextNotifications]_vars

(***************************************************************************)
(* The action dispatcher with the type-hint handler and command behind it  *)
(*                                                                         *)
(* Dispatched actions wait in a queue; the dispatcher begins the one at    *)
(* the head when nothing is being processed.  The handler of setTypeHints  *)
(* runs to its end in one step (handle, type-hints.ts 166-172); the        *)
(* traversal of ApplyTypeHintsCommand.execute (82-91) is taken one element *)
(* at a time, so that anything beginning in the middle of it would show.   *)
(***************************************************************************)

\* index.all() of the six-element tree, in the order the traversal visits it
TraversalOrder == <<"root", "s1", "s2", "e1", "e2", "o1">>

SetModelAction_KIND == "setModel"

\* the actions dispatched from outside
DispatchedActions ==
    StackActions \cup {[kind |-> SetModelAction_KIND, newRoot |-> Tree(Features, TRUE)]}

\* the queue with one more action at its end, holding the next ticket
Queued(action) ==
    Append(queue, [ticket |-> dispatcher.tickets + 1, action |-> action])

\* dispatch(action) : the action joins the queue behind the ones waiting
Dispatch(action) ==
    /\ dispatcher.tickets < MaxTickets
    /\ queue' = Queued(action)
    /\ dispatcher' = [dispatcher EXCEPT !.tickets = @ + 1]
    /\ UNCHANGED <<registryVars, probeVars, treeVars, requestVars, ingested, stackVars, notifier>>

\* the queue after its head has been taken and the feedback actions, if any,
\* have been dispatched behind the actions waiting
AfterHead(feedbackActions) ==
    IF feedbackActions = {} THEN Tail(queue)
    ELSE Append(Tail(queue), [ticket |-> dispatcher.tickets + 1,
                              action |-> ApplyTypeHintsAction_create])

\* the dispatcher after it has begun the head of the queue
Begun(feedbackActions, current, todo) ==
    [tickets |-> IF feedbackActions = {} THEN dispatcher.tickets
                 ELSE dispatcher.tickets + 1,
     begun   |-> Head(queue).ticket,
     current |-> current,
     todo    |-> todo]

\* the head of the queue is a setTypeHints action: TypeHintProvider.handle
BeginHandle ==
    /\ queue # <<>>
    /\ Head(queue).action.kind = "setTypeHints"
    /\ dispatcher.tickets < MaxTickets
    /\ handle(Head(queue).action)
    /\ queue' = AfterHead(feedback')
    /\ dispatcher' = Begun(feedback', Undefined, <<>>)
    /\ UNCHANGED <<ingested, notifier>>

\* the head of the queue is a setModel action: the root is replaced and the
\* registered feedback is dispatched again
BeginReplace ==
    /\ queue # <<>>
    /\ Head(queue).action.kind = SetModelAction_KIND
    /\ dispatcher.tickets < MaxTickets
    /\ elements' = Head(queue).action.newRoot
    /\ before' = Head(queue).action.newRoot
    /\ passes' = 0
    /\ turnedOn' = [id \in DOMAIN Head(queue).action.newRoot |-> {}]
    /\ queue' = AfterHead(feedback)
    /\ dispatcher' = Begun(feedback, Undefined, <<>>)
    /\ UNCHANGED <<registryVars, probeVars, feedback, requestVars, ingested, stackVars, notifier>>

\* the head of the queue is an applyTypeHints action: execute starts its
\* traversal of context.root.index.all()
BeginExecute ==
    /\ queue # <<>>
    /\ ApplyTypeHintsAction_is(Head(queue).action)
    /\ before' = elements
    /\ queue' = Tail(queue)
    /\ dispatcher' = Begun({}, Head(queue), TraversalOrder)
    /\ UNCHANGED <<registryVars, probeVars, elements, feedback, passes, turnedOn,
                   requestVars, ingested, stackVars, notifier>>

\* an action is begun while another is still being processed
Begin_Reentrant ==
    \/ BeginHandle
    \/ BeginReplace
    \/ BeginExecute

\* the dispatcher begins the action at the head of the queue once the one
\* before it has been processed
Begin ==
    /\ dispatcher.current = Undefined
    /\ \/ BeginHandle
       \/ BeginReplace
       \/ BeginExecute

\* one turn of execute's forEach: the next element of the traversal
executeStep ==
    /\ dispatcher.current # Undefined
    /\ dispatcher.todo # <<>>
    /\ elements' = [elements EXCEPT ![Head(dispatcher.todo)] = applyTypeHint(@)]
    /\ turnedOn' = [turnedOn EXCEPT ![Head(dispatcher.todo)] =
                       @ \cup TokensOn(elements[Head(dispatcher.todo)])]
    /\ dispatcher' = [dispatcher EXCEPT !.todo = Tail(@)]
    /\ UNCHANGED <<registryVars, probeVars, feedback, before, passes, requestVars,
                   ingested, stackVars, queue, notifier>>

\* execute returns context.root: the command has been processed
executeReturn ==
    /\ dispatcher.current # Undefined
    /\ dispatcher.todo = <<>>
    /\ passes' = passes + 1
    /\ dispatcher' = [dispatcher EXCEPT !.current = Undefined]
    /\ UNCHANGED <<registryVars, probeVars, elements, feedback, before, turnedOn,
                   requestVars, ingested, stackVars, queue, notifier>>

InitDispatch ==
    /\ shapeHints = EmptyMap
    /\ edgeHints = EmptyMap
    /\ probe = NoProbe
    /\ answer = Undefined
    /\ elements = Tree({}, TRUE)
    /\ feedback = {}
    /\ before = elements
    /\ passes = 0
    /\ turnedOn = [id \in DOMAIN elements |-> {}]
    /\ NoRequests
    /\ ingested = NoIngest
    /\ NoStack
    /\ NoDispatch

NextDispatch ==
    \/ \E action \in DispatchedActions : Dispatch(action)
    \/ Begin
    \/ executeStep
    \/ executeReturn

SpecDispatch == InitDispatch /\ [][NextDispatch]_vars

(***************************************************************************)
(* C11  The registry holds one hint per exact element type id in each of   *)
(* its two maps.  After a setTypeHints action is handled, every id the     *)
(* action names maps to the last hint the action gives for it, whole (no   *)
(* field of the hint it replaces survives), every id it does not name      *)
(* keeps the entry it had, and handling the same action a second time      *)
(* leaves the registry as it was after the first.                          *)
(***************************************************************************)
NamedIds(hints) == {hints[i].elementTypeId : i \in 1..Len(hints)}

LastNamed(hints, id) ==
    LET at == {i \in 1..Len(hints) : hints[i].elementTypeId = id}
    IN  hints[CHOOSE i \in at : \A j \in at : j <= i]

LastWriteWins(map, prior, hints) ==
    /\ \A k \in DOMAIN map : map[k].elementTypeId = k
    /\ DOMAIN map = (DOMAIN prior) \cup NamedIds(hints)
    /\ \A k \in NamedIds(hints) : map[k] = LastNamed(hints, k)
    /\ \A k \in (DOMAIN prior) \ NamedIds(hints) : map[k] = prior[k]

C11_LastWriteWins ==
    (ingested.action # Undefined /\ SetTypeHintsAction_is(ingested.action)) =>
        /\ LastWriteWins(shapeHints, ingested.shapeHints, ingested.action.shapeHints)
        /\ LastWriteWins(edgeHints, ingested.edgeHints, ingested.action.edgeHints)
        /\ ingested.again =>
               /\ shapeHints = ingested.shapeHints
               /\ edgeHints = ingested.edgeHints

\* an action that names n twice is handled on a registry that holds another
\* hint for n, with a field the last hint lacks, and an entry for g
C11_Witness ==
    /\ ingested.action # Undefined
    /\ SetTypeHintsAction_is(ingested.action)
    /\ Len(ingested.action.shapeHints) = 2
    /\ NamedIds(ingested.action.shapeHints) = {TNode}
    /\ ingested.action.shapeHints[1] # ingested.action.shapeHints[2]
    /\ DOMAIN ingested.shapeHints = {TNode, TGraph}
    /\ "containableElementTypeIds" \in DOMAIN ingested.shapeHints[TNode]
    /\ "containableElementTypeIds" \notin DOMAIN shapeHints[TNode]
    /\ shapeHints[TGraph] = ingested.shapeHints[TGraph]

(***************************************************************************)
(* C12  Every handled setTypeHints action registers the applyTypeHints     *)
(* feedback, and the command is run again on the root a later set or       *)
(* update of the model puts in place: whenever a command has run, and      *)
(* again and again for ever, every element of the current tree carries     *)
(* the tokens the current registry gives it.                               *)
(***************************************************************************)
Carries(element) ==
    /\ TokensOn(element) \subseteq element.features
    /\ TokensOff(element) \cap element.features = {}

TreeCarriesRegistry == \A id \in DOMAIN elements : Carries(elements[id])

C12_FeedbackReapplied ==
    /\ [][\A action \in StackActions :
            (SetTypeHintsAction_is(action) /\ handle(action))
                => ApplyTypeHintsAction_create \in feedback']_vars
    /\ (commandStack.state = "Executed") ~> TreeCarriesRegistry
    /\ []<>TreeCarriesRegistry

\* hints were ingested, an update put a new root in place, and the pass that
\* followed changed that root
C12_Witness ==
    /\ DOMAIN shapeHints # {}
    /\ commandStack.state = "Resolved"
    /\ commandStack.command.class = "UpdateModelCommand"
    /\ ApplyTypeHintsAction_create \in feedback
    /\ elements # commandStack.command.newRoot
    /\ TreeCarriesRegistry

(***************************************************************************)
(* C13  execute(command) emits the model-root-changed event exactly when   *)
(* the command is a SetModelCommand or an UpdateModelCommand: no listener  *)
(* is notified while the command is under way, once it has completed every *)
(* listener has been handed the root the command produced, and for any     *)
(* other command no listener is notified.                                  *)
(***************************************************************************)
Shape(tree) == [id \in DOMAIN tree |-> <<tree[id].class, tree[id].type>>]

C13_EmitsForModelCommands ==
    /\ commandStack.state \in {"Executing", "Executed", "Resolved"} =>
            stackLog.notified = <<>>
    /\ (commandStack.state = "Idle" /\ commandStack.command # Undefined) =>
            /\ (stackLog.notified # <<>>) <=>
                   commandStack.command.class \in {"SetModelCommand", "UpdateModelCommand"}
            /\ \A i \in DOMAIN stackLog.notified :
                   /\ stackLog.notified[i].root = commandStack.result
                   /\ Shape(stackLog.notified[i].root) = Shape(commandStack.command.newRoot)

\* a SetModelCommand has completed on a registry with hints, and the
\* listeners were handed its root, which the feedback had changed
C13_Witness ==
    /\ commandStack.state = "Idle"
    /\ commandStack.command # Undefined
    /\ commandStack.command.class = "SetModelCommand"
    /\ Len(stackLog.notified) = 3
    /\ stackLog.notified[1].root # commandStack.command.newRoot
    /\ stackLog.notified[1].root = elements

(***************************************************************************)
(* C14  undo() and redo() return the current model, which is the model as  *)
(* it was before the call: they log one warning, change neither the model  *)
(* nor the registry nor the stack, notify no listener and return a value   *)
(* (they do not raise).                                                    *)
(***************************************************************************)
C14_UndoRedoAreNoOps ==
    [][(undo \/ redo) =>
          /\ stackLog'.returned.call \in {"undo", "redo"}
          /\ stackLog'.returned.value = elements
          /\ elements' = elements
          /\ stackLog'.warnings = Append(stackLog.warnings, stackLog'.returned.call)
          /\ stackLog'.notified = stackLog.notified
          /\ UNCHANGED <<registryVars, treeVars, commandStack>>]_vars

\* undo() was called on a model that a pass had changed, with listeners
\* subscribed, and it returned that model
C14_Witness ==
    /\ stackLog.warnings = <<"undo">>
    /\ stackLog.returned = [call |-> "undo", value |-> elements]
    /\ elements # before
    /\ passes > 0
    /\ Len(commandStack.callbacks) > 0

(***************************************************************************)
(* C15  On an emission every registered listener is invoked, in the order  *)
(* of registration; a listener that throws does not keep the listeners     *)
(* registered after it from being invoked.                                 *)
(***************************************************************************)
C15_ListenersInRegistrationOrder ==
    (stackLog.notified # <<>>) =>
        [i \in DOMAIN stackLog.notified |-> stackLog.notified[i].listener]
            = commandStack.modelRootListeners

\* l2 throws, and l3, registered after it, was invoked all the same
C15_Witness ==
    /\ Len(stackLog.notified) = 3
    /\ stackLog.notified[2].listener \in Throwing
    /\ stackLog.notified[3].listener = "l3"

(***************************************************************************)
(* C17  After a set or an update of the model, the feedback has been       *)
(* applied to the new root by the time the promise of the command has      *)
(* resolved: whoever reads feature sets from then on, the model root       *)
(* listeners included, finds every element carrying the tokens of the      *)
(* registry.                                                               *)
(***************************************************************************)
ReadersFindTokens ==
    /\ TreeCarriesRegistry
    /\ feedback # {} => passes > 0

PassesGuard(response, kind, field) ==
    /\ "kind" \in DOMAIN response
    /\ response.kind = kind
    /\ field \in DOMAIN response

C16_NeutralWhenUnrecognised ==
    /\ probe.op = "getItems" =>
          IF PassesGuard(probe.response, "setContextActions", "actions")
          THEN answer = probe.response.actions
          ELSE answer = <<>>
    /\ probe.op = "validate" =>
          IF PassesGuard(probe.response, "setEditValidationResult", "status")
          THEN /\ DOMAIN answer = {"message", "severity"}
               /\ answer.message = probe.response.status.message
               /\ (answer.severity = "ok") <=>
                      probe.response.status.severity \notin {"FATAL", "ERROR", "WARNING"}
          ELSE answer = [severity |-> "ok"]

\* validate met no response at all and resolved to the neutral result
C16_Witness ==
    /\ probe.op = "validate"
    /\ probe.response = Undefined
    /\ answer = [severity |-> "ok"]

(***************************************************************************)
(* C19  The kind constants of the six variants are pairwise distinct, and  *)
(* a guard holds only of an object of its own kind: of any object at most  *)
(* one of the six guards holds, and a guard does not hold of an object of  *)
(* its own kind that lacks one of the variant's required string fields     *)
(* (the field is absent, or is not a string).                              *)
(***************************************************************************)
KindOf ==
    [ServerStatusAction |-> ServerStatusAction_KIND,
     ServerMessageAction |-> ServerMessageAction_KIND,
     StartProgressAction |-> StartProgressAction_KIND,
     UpdateProgressAction |-> UpdateProgressAction_KIND,
     EndProgressAction |-> EndProgressAction_KIND,
     ApplyTypeHintsAction |-> ApplyTypeHintsAction_KIND]

RequiredStrings ==
    [ServerStatusAction |-> {"severity", "message"},
     ServerMessageAction |-> {"severity", "message"},
     StartProgressAction |-> {"progressId", "title"},
     UpdateProgressAction |-> {"progressId"},
     EndProgressAction |-> {"progressId"},
     ApplyTypeHintsAction |-> {}]

OfKind(object, kind) == "kind" \in DOMAIN object /\ object.kind = kind

LacksString(object, field) ==
    field \notin DOMAIN object \/ "string" \notin DOMAIN object[field]

C19_GuardsAreExclusive ==
    /\ Cardinality({KindOf[v] : v \in DOMAIN KindOf}) = Cardinality(DOMAIN KindOf)
    /\ probe.op = "is" =>
          /\ Cardinality({v \in DOMAIN answer : answer[v]}) <= 1
          /\ \A v \in DOMAIN answer :
                /\ answer[v] => OfKind(probe.object, KindOf[v])
                /\ (/\ OfKind(probe.object, KindOf[v])
                    /\ \E f \in RequiredStrings[v] : LacksString(probe.object, f))
                       => ~answer[v]
                /\ (/\ OfKind(probe.object, KindOf[v])
                    /\ \A f \in RequiredStrings[v] : ~LacksString(probe.object, f))
                       => answer[v]

\* an object of kind serverMessage that owns all four strings: its own guard
\* holds and no other does
C19_Witness ==
    /\ probe.op = "is"
    /\ OfKind(probe.object, ServerMessageAction_KIND)
    /\ \A f \in {"severity", "message", "progressId", "title"} :
          ~LacksString(probe.object, f)
    /\ answer.ServerMessageAction
    /\ ~answer.ServerStatusAction
    /\ ~answer.StartProgressAction

(***************************************************************************)
(* C20  ServerStatusAction.create and ServerMessageAction.create return    *)
(* an action whose severity is 'INFO' when no severity is specified (the   *)
(* options omit severity, or carry it as undefined) and the given severity *)
(* otherwise, and the action they return satisfies the guard of its own    *)
(* variant.                                                                *)
(***************************************************************************)
SeveritySpecified(options) ==
    "severity" \in DOMAIN options /\ options.severity # Undefined

C20_CreateDefaultsToInfo ==
    probe.op \in {"ServerStatusAction.create", "ServerMessageAction.create"} =>
        /\ "severity" \in DOMAIN answer
        /\ answer.severity = IF SeveritySpecified(probe.options)
                             THEN probe.options.severity
                             ELSE Str("INFO")
        /\ IF probe.op = "ServerStatusAction.create"
           THEN ServerStatusAction_is(answer)
           ELSE ServerMessageAction_is(answer)


(***************************************************************************)
(* C18  The dispatcher processes the actions one at a time in the order    *)
(* they were dispatched, and the feedback a handler registers waits behind *)
(* the actions already queued: tickets are begun one after the other, none *)
(* while a traversal of ApplyTypeHintsCommand is under way; during a       *)
(* traversal the registry stays as it is and the tree changes only at the  *)
(* element the traversal has reached, so the finished traversal equals one *)
(* pass of applyTypeHint over the tree it started from.                    *)
(***************************************************************************)
Traversing == dispatcher.current # Undefined

WaitingInOrder ==
    \A i \in 1..Len(queue) : queue[i].ticket = dispatcher.begun + i

C21_MalformedNotProcessed ==
    [][(ingested'.action # Undefined /\ ~SetTypeHintsAction_is(ingested'.action)) =>
          UNCHANGED <<registryVars, feedback>>]_vars

\* a malformed action has been handled by a provider that holds hints
C21_Witness ==
    /\ ingested.action # Undefined
    /\ ~SetTypeHintsAction_is(ingested.action)
    /\ ingested.shapeHints # EmptyMap
    /\ shapeHints = ingested.shapeHints
    /\ feedback = {ApplyTypeHintsAction_create}

(***************************************************************************)
(* C22  The notifier goes Idle -> Executing -> (emit) -> Idle without      *)
(* overlap: a command begins only when the stack is idle and the events of *)
(* all set/update commands begun before it have been delivered; commands   *)
(* are begun in the order of the calls and the events are delivered in     *)
(* the order the set/update commands were executed.                        *)
(***************************************************************************)
IsChained(entry) == entry.chained

\* the tickets of the set/update commands begun, in the order they began
ModelTickets ==
    [i \in 1..Len(SelectSeq(notifier.begun, IsChained)) |->
        SelectSeq(notifier.begun, IsChained)[i].ticket]

NotifierSteps ==
    {<<"Idle", "Executing">>, <<"Executing", "Executed">>, <<"Executed", "Resolved">>,
     <<"Executed", "Idle">>, <<"Resolved", "Idle">>}

CandidateEdges == {[type |-> t] : t \in {TEdge, TEdgeTask, TNode}}

\* the last pass found a shape hint for the element and a feature set to change
ReceivedShapeHint(id) ==
    /\ before[id].class \in {"SShapeElement", "SModelRoot"}
    /\ getShapeTypeHint(before[id]) # Undefined
    /\ isModifiableFeatureSet(before[id])

NamedAsEndpoint(t) ==
    \E k \in DOMAIN edgeHints :
        \E p \in edgeHints[k].sourceElementTypeIds \cup edgeHints[k].targetElementTypeIds :
            IsSegmentPrefix(p, t)

C23_CanConnectFollowsValidEdges ==
    passes >= 1 =>
        \A id \in DOMAIN elements :
            ReceivedShapeHint(id) =>
                \A candidate \in CandidateEdges :
                    /\ \A role \in {"source", "target"} :
                          canConnect(elements[id], candidate, role)
                            <=> candidate.type \in getValidEdgeElementTypes(before[id], role)
                    /\ ~NamedAsEndpoint(elements[id].type) =>
                          /\ ~canConnect(elements[id], candidate, "source")
                          /\ ~canConnect(elements[id], candidate, "target")

\* s1 may be the source of an edge of type e and not its target, and the root
\* received a hint while no edge hint names its type
C23_Witness ==
    /\ passes >= 1
    /\ ReceivedShapeHint("s1")
    /\ canConnect(elements["s1"], [type |-> TEdge], "source")
    /\ ~canConnect(elements["s1"], [type |-> TEdge], "target")
    /\ ReceivedShapeHint("root")
    /\ ~NamedAsEndpoint(elements["root"].type)

(***************************************************************************)
(* C24  For every shape-like element the last pass applied shape hint h    *)
(* to, isContainableElement(candidate) is false for every candidate when   *)
(* h.containableElementTypeIds is absent or empty, and otherwise true      *)
(* exactly when the candidate's type id is one of them.                    *)
(***************************************************************************)
CandidateChildren == {[type |-> t] : t \in {TNode, TTask, TGraph, TComp, TEdge}}

C24_ContainableFollowsHint ==
    passes >= 1 =>
        \A id \in DOMAIN elements :
            ReceivedShapeHint(id) =>
                LET h == getShapeTypeHint(before[id])
                IN  \A candidate \in CandidateChildren :
                        isContainableElement(elements[id], candidate)
                          <=> /\ "containableElementTypeIds" \in DOMAIN h
                              /\ candidate.type \in h.containableElementTypeIds

\* the root received a hint that lets it contain n and n:t, s1 one whose
\* containableElementTypeIds is absent or empty
C24_Witness ==
    /\ passes >= 1
    /\ ReceivedShapeHint("root")
    /\ isContainableElement(elements["root"], [type |-> TTask])
    /\ ~isContainableElement(elements["root"], [type |-> TComp])
    /\ ReceivedShapeHint("s1")
    /\ \A candidate \in CandidateChildren :
          ~isContainableElement(elements["s1"], candidate)

\* s1 received a hint that has no containableElementTypeIds at all
C24_WitnessAbsent ==
    /\ passes >= 1
    /\ ReceivedShapeHint("s1")
    /\ "containableElementTypeIds" \notin DOMAIN getShapeTypeHint(before["s1"])

(***************************************************************************)
(* C25  Hint resolution ends after at most one lookup per colon segment    *)
(* of the type id plus one; what it returns is what its last lookup found; *)
(* it returns undefined only after it has looked up the empty string, so a *)
(* hint registered under "" is returned for every type id none of whose    *)
(* non-empty prefixes is registered.                                       *)
(***************************************************************************)
ProbedRegistry ==
    IF probe.op = "getShapeTypeHint" THEN shapeHints ELSE edgeHints

NonEmptyRegisteredPrefixes(t, R) == RegisteredPrefixes(t, R) \ {<<>>}

C25_ResolutionEndsOnEmptyId ==
    probe.op \in {"getShapeTypeHint", "getEdgeTypeHint"} =>
        LET tried == Lookups([type |-> probe.type], ProbedRegistry)
        IN  /\ Len(tried) <= Len(Split(probe.type)) + 1
            /\ answer = MapGet(ProbedRegistry, tried[Len(tried)])
            /\ answer = Undefined => tried[Len(tried)] = <<>>
            /\ (/\ <<>> \in DOMAIN ProbedRegistry
                /\ NonEmptyRegisteredPrefixes(probe.type, ProbedRegistry) = {})
                  => answer = ProbedRegistry[<<>>]

\* an id of two segments was resolved to the hint registered under "", found
\* by the third lookup, while another key is registered that is no prefix
C25_Witness ==
    /\ probe.op \in {"getShapeTypeHint", "getEdgeTypeHint"}
    /\ Len(Split(probe.type)) = 2
    /\ probe.type[1] # Colon
    /\ <<>> \in DOMAIN ProbedRegistry
    /\ Cardinality(DOMAIN ProbedRegistry) = 2
    /\ Len(Lookups([type |-> probe.type], ProbedRegistry)) = 3
    /\ answer = ProbedRegistry[<<>>]

(***************************************************************************)
(* issue-marker.ts : getOrCreateSIssueMarker, getSIssueMarker              *)
(*                                                                         *)
(* elements holds one parent element "n1"; its children are records with   *)
(* a class and an id (the identity of the object).  passes counts the      *)
(* calls made, before keeps the element as it started.                     *)
(***************************************************************************)
\* modelElement.parentToLocal(modelElement.bounds)
parentToLocal(bounds) == [local |-> bounds]

\* isBoundsAware(modelElement)
isBoundsAware(modelElement) == "bounds" \in DOMAIN modelElement

\* new GIssueMarker() : a marker that is no child yet, the id stands for
\* the identity of the new object
GIssueMarker(id) ==
    [class |-> "GIssueMarker", id |-> id, type |-> "marker", issues |-> <<>>,
     projectedBounds |-> Undefined]

\* SParentElement.add(child) : the child is appended to the children
add(modelElement, child) ==
    [modelElement EXCEPT !.children = Append(@, child)]

\* the for loop of getSIssueMarker over the children not yet visited
RECURSIVE MarkerLoop(_, _)
MarkerLoop(children, issueMarker) ==
    IF children = <<>> THEN issueMarker
    ELSE MarkerLoop(Tail(children),
                    IF Head(children).class = "GIssueMarker" THEN Head(children)
                    ELSE issueMarker)

getSIssueMarker(modelElement) == MarkerLoop(modelElement.children, Undefined)

\* the marker of the `if (issueMarker === undefined)` branch
CreatedMarker(modelElement) ==
    IF isBoundsAware(modelElement)
    THEN [GIssueMarker(Len(modelElement.children) + 1) EXCEPT
             !.projectedBounds = parentToLocal(modelElement.bounds)]
    ELSE GIssueMarker(Len(modelElement.children) + 1)

\* a slip: a marker is created and added whether or not one is there
getOrCreateSIssueMarker_AlwaysNew(modelElement) ==
    [issueMarker |-> CreatedMarker(modelElement),
     modelElement |-> add(modelElement, CreatedMarker(modelElement))]

\* getOrCreateSIssueMarker : what it returns and what it leaves of the element
getOrCreateSIssueMarker(modelElement) ==
    IF getSIssueMarker(modelElement) = Undefined
    THEN [issueMarker |-> CreatedMarker(modelElement),
          modelElement |-> add(modelElement, CreatedMarker(modelElement))]
    ELSE [issueMarker |-> getSIssueMarker(modelElement),
          modelElement |-> modelElement]

ChildClasses == {"GIssueMarker", "SIssueMarker", "SLabel"}

\* the children an element starts with: up to two, ids by position
StartingChildren ==
    {<<>>}
    \cup {<<[class |-> c, id |-> 1]>> : c \in ChildClasses}
    \cup {<<[class |-> c, id |-> 1], [class |-> d, id |-> 2]>> :
              c \in ChildClasses, d \in ChildClasses}

ParentElements ==
    {[class |-> "SNode", children |-> ch] : ch \in StartingChildren}
    \cup {[class |-> "SNode", children |-> ch, bounds |-> "b"] : ch \in StartingChildren}

InitMarkers ==
    /\ shapeHints = EmptyMap
    /\ edgeHints = EmptyMap
    /\ probe = NoProbe
    /\ answer = Undefined
    /\ \E modelElement \in ParentElements : elements = [id \in {"n1"} |-> modelElement]
    /\ feedback = {}
    /\ before = elements
    /\ passes = 0
    /\ turnedOn = [id \in DOMAIN elements |-> {}]
    /\ NoRequests
    /\ ingested = NoIngest
    /\ NoStack
    /\ NoDispatch

\* a call of getOrCreateSIssueMarker(n1)
GetOrCreate ==
    /\ passes < MaxMarkerCalls
    /\ probe' = [op |-> "getOrCreateSIssueMarker", found |-> getSIssueMarker(elements["n1"])]
    /\ answer' = getOrCreateSIssueMarker(elements["n1"]).issueMarker
    /\ elements' = [elements EXCEPT !["n1"] = getOrCreateSIssueMarker(@).modelElement]
    /\ passes' = passes + 1
    /\ UNCHANGED <<registryVars, feedback, before, turnedOn, requestVars, ingested,
                   stackVars, dispatchVars, notifier>>

\* a call of getSIssueMarker(n1)
Get ==
    /\ passes < MaxMarkerCalls
    /\ probe' = [op |-> "getSIssueMarker", found |-> getSIssueMarker(elements["n1"])]
    /\ answer' = getSIssueMarker(elements["n1"])
    /\ passes' = passes + 1
    /\ UNCHANGED <<registryVars, elements, feedback, before, turnedOn, requestVars,
                   ingested, stackVars, dispatchVars, notifier>>

NextMarkers ==
    \/ GetOrCreate
    \/ Get

SpecMarkers == InitMarkers /\ [][NextMarkers]_vars

(***************************************************************************)
(* C26  getOrCreateSIssueMarker returns a GIssueMarker that is already a   *)
(* direct child when there is one and adds a new one only when there is    *)
(* none; on an element that started without a GIssueMarker child, after    *)
(* any calls the element has exactly one GIssueMarker child, every call    *)
(* has returned it, and getSIssueMarker returns it.                        *)
(***************************************************************************)
MarkerChildren(modelElement) ==
    {i \in 1..Len(modelElement.children) : modelElement.children[i].class = "GIssueMarker"}

C27_SeverityFollowsStatus ==
    (/\ probe.op = "validate"
     /\ PassesGuard(probe.response, "setEditValidationResult", "status")) =>
        LET status == probe.response.status
        IN  /\ answer.severity \in {"error", "warning", "ok"}
            /\ answer.severity = "error" <=> ValidationStatus_isError(status)
            /\ answer.severity = "warning" <=>
                   (ValidationStatus_isWarning(status) /\ ~ValidationStatus_isError(status))
            /\ answer.severity = "ok" <=>
                   (~ValidationStatus_isWarning(status) /\ ~ValidationStatus_isError(status))
            /\ answer.message = status.message

\* a warning with a message has come back from the server
C27_Witness ==
    /\ probe.op = "validate"
    /\ PassesGuard(probe.response, "setEditValidationResult", "status")
    /\ ValidationStatus_isWarning(probe.response.status)
    /\ probe.response.status.message = "taken"
    /\ answer = [message |-> "taken", severity |-> "warning"]

====
